---- MODULE Spec2Model ----
(***************************************************************************)
(* Device status registries of the MQTT broker servers.                   *)
(*                                                                         *)
(* Two registry programs live in the repository:                          *)
(*   - the liveness server (src/unnamed/part_003, src/server.js:1-416,     *)
(*     src/unnamed/part_002): ingest with firstSeen/lastSeen/updatedAt and *)
(*     the auto-offline timer; it has no capacity bound;                   *)
(*   - the capacity server (src/server.js:418-605): ingest that replaces   *)
(*     the record by {status, updatedAt} and evicts over MAX_DEVICES; it   *)
(*     has no auto-offline timer.                                          *)
(* Spec is the liveness server, SpecCap the capacity server.               *)
(*                                                                         *)
(* JavaScript strings are sequences of one-character strings.  A time      *)
(* value (epoch milliseconds) is a pair <<day, ms>> with                   *)
(* time = day * 86400000 + ms and 0 <= ms < 86400000, so that the whole    *)
(* range of Date fits the model checker's integers.                        *)
(***************************************************************************)
EXTENDS Integers, Sequences, FiniteSets, TLC

(***************************************************************************)
(* Strings                                                                 *)
(***************************************************************************)

\* UTF-16 code units of the characters that occur in toISOString() output.
CodeTable ==
    ("+" :> 43) @@ ("-" :> 45) @@ ("." :> 46) @@ ("0" :> 48) @@ ("1" :> 49)
    @@ ("2" :> 50) @@ ("3" :> 51) @@ ("4" :> 52) @@ ("5" :> 53) @@ ("6" :> 54)
    @@ ("7" :> 55) @@ ("8" :> 56) @@ ("9" :> 57) @@ (":" :> 58) @@ ("T" :> 84)
    @@ ("Z" :> 90)

Code(c) == CodeTable[c]

\* a < b on JavaScript strings: lexicographic order of the code units.
RECURSIVE StrLess(_, _)
StrLess(a, b) ==
    IF b = <<>> THEN FALSE
    ELSE IF a = <<>> THEN TRUE
    ELSE IF Code(Head(a)) # Code(Head(b)) THEN Code(Head(a)) < Code(Head(b))
    ELSE StrLess(Tail(a), Tail(b))

WhiteSpace == {" ", "\t", "\n"}

RECURSIVE TrimStart(_)
TrimStart(s) ==
    IF s # <<>> /\ Head(s) \in WhiteSpace THEN TrimStart(Tail(s)) ELSE s

RECURSIVE TrimEnd(_)
TrimEnd(s) ==
    IF s # <<>> /\ s[Len(s)] \in WhiteSpace
    THEN TrimEnd(SubSeq(s, 1, Len(s) - 1)) ELSE s

\* String.prototype.trim
Trim(s) == TrimEnd(TrimStart(s))

\* String.prototype.split(/[,:]/): cut at EVERY comma and colon.
RECURSIVE SplitAcc(_, _, _)
SplitAcc(s, cur, acc) ==
    IF s = <<>> THEN Append(acc, cur)
    ELSE IF Head(s) \in {",", ":"} THEN SplitAcc(Tail(s), <<>>, Append(acc, cur))
    ELSE SplitAcc(Tail(s), Append(cur, Head(s)), acc)

Split(s) == SplitAcc(s, <<>>, <<>>)

(***************************************************************************)
(* Time values and Date                                                    *)
(***************************************************************************)

MsPerDay == 24 * 60 * 60 * 1000

\* The largest day of a valid Date: |time| <= 8.64e15 ms.
MaxDay == 100 * 1000 * 1000

TimeLess(a, b) == a[1] < b[1] \/ (a[1] = b[1] /\ a[2] < b[2])

TimeLeq(a, b) == a = b \/ TimeLess(a, b)

\* t + k milliseconds, 0 <= k < MsPerDay.
AddMs(t, k) ==
    IF t[2] + k >= MsPerDay THEN <<t[1] + 1, t[2] + k - MsPerDay>>
    ELSE <<t[1], t[2] + k>>

\* TimeClip: a Date holds a time only within +-8.64e15 ms.
ValidTime(t) ==
    /\ -MaxDay <= t[1]
    /\ t[1] <= MaxDay
    /\ (t[1] = MaxDay => t[2] = 0)

\* Year, month and day of a day number (proleptic Gregorian calendar).
CivilFromDays(d) ==
    LET z    == d + 719468
        era  == z \div 146097
        doe  == z - era * 146097
        yoe  == (doe - doe \div 1460 + doe \div 36524 - doe \div 146096) \div 365
        doy  == doe - (365 * yoe + yoe \div 4 - yoe \div 100)
        mp   == (5 * doy + 2) \div 153
        dd   == doy - (153 * mp + 2) \div 5 + 1
        mm   == IF mp < 10 THEN mp + 3 ELSE mp - 9
        yy   == yoe + era * 400 + (IF mm <= 2 THEN 1 ELSE 0)
    IN  <<yy, mm, dd>>

\* Day number of a year, month and day.
DaysFromCivil(y, m, d) ==
    LET yy   == IF m <= 2 THEN y - 1 ELSE y
        era  == yy \div 400
        yoe  == yy - era * 400
        doy  == (153 * (IF m > 2 THEN m - 3 ELSE m + 9) + 2) \div 5 + d - 1
        doe  == yoe * 365 + yoe \div 4 - yoe \div 100 + doy
    IN  era * 146097 + doe - 719468

DigitChars == <<"0", "1", "2", "3", "4", "5", "6", "7", "8", "9">>

DigitChar(n) == DigitChars[n + 1]

DigitVal(c) == Code(c) - 48

\* n >= 0 as exactly two, three, four and six decimal digits.
Pad2(n) == <<DigitChar((n \div 10) % 10), DigitChar(n % 10)>>

Pad3(n) == <<DigitChar((n \div 100) % 10), DigitChar((n \div 10) % 10), DigitChar(n % 10)>>

Pad4(n) == Pad2(n \div 100) \o Pad2(n % 100)

Pad6(n) == Pad3(n \div 1000) \o Pad3(n % 1000)

\* The number written by the digits s[i..j].
RECURSIVE ParseNat(_, _, _)
ParseNat(s, i, j) ==
    IF j < i THEN 0 ELSE 10 * ParseNat(s, i, j - 1) + DigitVal(s[j])

\* Date.prototype.toISOString of a valid time: YYYY-MM-DDTHH:mm:ss.sssZ, the
\* year as four digits from 0 to 9999 and as a sign and six digits otherwise.
toISOString(t) ==
    LET ymd  == CivilFromDays(t[1])
        y    == ymd[1]
        year == IF 0 <= y /\ y <= 9999 THEN Pad4(y)
                ELSE IF y < 0 THEN <<"-">> \o Pad6(-y)
                ELSE <<"+">> \o Pad6(y)
        hh   == t[2] \div 3600000
        mi   == (t[2] \div 60000) % 60
        ss   == (t[2] \div 1000) % 60
        ms   == t[2] % 1000
    IN  year \o <<"-">> \o Pad2(ymd[2]) \o <<"-">> \o Pad2(ymd[3]) \o <<"T">>
          \o Pad2(hh) \o <<":">> \o Pad2(mi) \o <<":">> \o Pad2(ss)
          \o <<".">> \o Pad3(ms) \o <<"Z">>

\* Date.parse of a string that toISOString produced.
DateParse(s) ==
    LET signed == s[1] \in {"+", "-"}
        p      == IF signed THEN 7 ELSE 4
        yabs   == ParseNat(s, p - (IF signed THEN 5 ELSE 3), p)
        y      == IF s[1] = "-" THEN -yabs ELSE yabs
        mo     == ParseNat(s, p + 2, p + 3)
        dd     == ParseNat(s, p + 5, p + 6)
        hh     == ParseNat(s, p + 8, p + 9)
        mi     == ParseNat(s, p + 11, p + 12)
        ss     == ParseNat(s, p + 14, p + 15)
        ms     == ParseNat(s, p + 17, p + 19)
    IN  <<DaysFromCivil(y, mo, dd), hh * 3600000 + mi * 60000 + ss * 1000 + ms>>

\* Date.parse gives a number for a string shaped as toISOString shapes it
\* (a year of four digits, or of six after a sign) and NaN for a string
\* that holds no date, such as "abc".
IsoShaped(s) ==
    LET p == IF s # <<>> /\ s[1] \in {"+", "-"} THEN 3 ELSE 0
    IN  /\ Len(s) = 24 + p
        /\ s[5 + p] = "-"
        /\ s[8 + p] = "-"
        /\ s[11 + p] = "T"
        /\ s[24 + p] = "Z"
        /\ \A i \in ((IF p = 0 THEN 1 ELSE 2)..(4 + p)) \cup {6 + p, 7 + p, 9 + p, 10 + p} :
              \E n \in 0..9 : s[i] = DigitChar(n)

(***************************************************************************)
(* JavaScript values read from a decoded payload                           *)
(***************************************************************************)

\* A value is [t, s, n]: its type, its characters (a string) and its time
\* value (a number).  "nan" is the number NaN.
JsUndefined == [t |-> "undefined", s |-> <<>>, n |-> <<0, 0>>]

JsNull == [t |-> "null", s |-> <<>>, n |-> <<0, 0>>]

JsNaN == [t |-> "nan", s |-> <<>>, n |-> <<0, 0>>]

JsString(chars) == [t |-> "string", s |-> chars, n |-> <<0, 0>>]

JsNumber(time) == [t |-> "number", s |-> <<>>, n |-> time]

\* ToBoolean: what `v ? a : b`, `v || x`, `!v` and `if (v)` test.
Truthy(v) ==
    CASE v.t = "string" -> v.s # <<>>
      [] v.t = "number" -> v.n # <<0, 0>>
      [] OTHER -> FALSE

Digits == {"0", "1", "2", "3", "4", "5", "6", "7", "8", "9"}

\* The time value of a string of decimal digits; beyond the range of Date
\* the day saturates just outside it.
RECURSIVE DigitsToTime(_)
DigitsToTime(s) ==
    IF s = <<>> THEN <<0, 0>>
    ELSE LET p == DigitsToTime(SubSeq(s, 1, Len(s) - 1))
             m == p[2] * 10 + DigitVal(s[Len(s)])
             d == p[1] * 10 + m \div MsPerDay
         IN  IF d > MaxDay THEN <<MaxDay + 1, 0>> ELSE <<d, m % MsPerDay>>

\* Number(v): a number is itself, a string of digits its value, the empty
\* string 0, any other string NaN, undefined NaN, null 0.
ToNumber(v) ==
    CASE v.t = "number" -> v
      [] v.t = "string" ->
            LET s == Trim(v.s)
            IN  IF \A i \in 1..Len(s) : s[i] \in Digits
                THEN JsNumber(DigitsToTime(s)) ELSE JsNaN
      [] v.t = "null" -> JsNumber(<<0, 0>>)
      [] OTHER -> JsNaN

\* String(v || '') of a payload field that is a string or is absent.
StringOr(v) == IF Truthy(v) THEN v.s ELSE <<>>

(***************************************************************************)
(* Payloads                                                                *)
(***************************************************************************)

\* A payload is [kind, device, status, ts, raw]:
\*   "object": JSON.parse gives an object with these fields (absent fields
\*             are JsUndefined);
\*   "null"  : JSON.parse gives null, raw is the text "null";
\*   "scalar": JSON.parse gives a number, a string, a boolean or an array;
\*   "text"  : JSON.parse throws, raw is the text.
JsonObject(device, status, ts) ==
    [kind |-> "object", device |-> device, status |-> status, ts |-> ts, raw |-> <<>>]

JsonNull ==
    [kind |-> "null", device |-> JsUndefined, status |-> JsUndefined,
     ts |-> JsUndefined, raw |-> <<"n", "u", "l", "l">>]

JsonScalar(raw) ==
    [kind |-> "scalar", device |-> JsUndefined, status |-> JsUndefined,
     ts |-> JsUndefined, raw |-> raw]

PlainText(raw) ==
    [kind |-> "text", device |-> JsUndefined, status |-> JsUndefined,
     ts |-> JsUndefined, raw |-> raw]

\* The index of the first comma or colon of a text, 0 when it has none.
FirstSeparator(raw) ==
    IF \E i \in 1..Len(raw) : raw[i] \in {",", ":"}
    THEN CHOOSE i \in 1..Len(raw) :
            /\ raw[i] \in {",", ":"}
            /\ \A j \in 1..(i - 1) : raw[j] \notin {",", ":"}
    ELSE 0

\* The text cut at its first separator only: the status is all that follows.
FallbackFirstOnly(raw) ==
    LET i == FirstSeparator(raw)
    IN  IF i > 0
        THEN [device |-> JsString(Trim(SubSeq(raw, 1, i - 1))),
              status |-> JsString(Trim(SubSeq(raw, i + 1, Len(raw)))),
              ts |-> JsUndefined]
        ELSE [device |-> JsUndefined, status |-> JsUndefined, ts |-> JsUndefined]

\* The status taken from the last field of the text.
FallbackLastField(raw) ==
    LET parts == Split(raw)
    IN  IF Len(parts) >= 2
        THEN [device |-> JsString(Trim(parts[1])),
              status |-> JsString(Trim(parts[Len(parts)])), ts |-> JsUndefined]
        ELSE [device |-> JsUndefined, status |-> JsUndefined, ts |-> JsUndefined]

\* The catch branch: split the text at every comma and colon, trim the parts.
Fallback(raw) ==
    LET parts == Split(raw)
    IN  IF Len(parts) >= 2
        THEN [device |-> JsString(Trim(parts[1])), status |-> JsString(Trim(parts[2])),
              ts |-> JsUndefined]
        ELSE [device |-> JsUndefined, status |-> JsUndefined, ts |-> JsUndefined]

\* The catch branch taken for every payload that is not a JSON object.
ParsePayloadFallingBack(p) ==
    CASE p.kind = "object" ->
            [device |-> JsString(Trim(StringOr(p.device))),
             status |-> JsString(Trim(StringOr(p.status))),
             ts |-> p.ts]
      [] OTHER -> Fallback(p.raw)

\* The fields of a decoded object taken without .trim().
ParsePayloadUntrimmed(p) ==
    CASE p.kind = "object" ->
            [device |-> JsString(StringOr(p.device)),
             status |-> JsString(StringOr(p.status)),
             ts |-> p.ts]
      [] p.kind = "scalar" ->
            [device |-> JsString(<<>>), status |-> JsString(<<>>), ts |-> JsUndefined]
      [] OTHER -> Fallback(p.raw)

\* The try/catch of the publish handler: device, status and ts as the
\* handler's variables hold them afterwards.
ParsePayload(p) ==
    CASE p.kind = "object" ->
            [device |-> JsString(Trim(StringOr(p.device))),
             status |-> JsString(Trim(StringOr(p.status))),
             ts |-> p.ts]
      [] p.kind = "scalar" ->
            [device |-> JsString(<<>>), status |-> JsString(<<>>), ts |-> JsUndefined]
      [] OTHER -> Fallback(p.raw)

\* The test of the status alone.
AcceptedStatusOnly(p) == Truthy(ParsePayload(p).status)

\* if (device && status)
Accepted(p) == Truthy(ParsePayload(p).device) /\ Truthy(ParsePayload(p).status)

\* ts ? Number(ts) : Date.now()
StampNumber(ts, now) == IF Truthy(ts) THEN ToNumber(ts) ELSE JsNumber(now)

\* new Date(x).toISOString() throws RangeError on an invalid date.
StampThrows(ts, now) ==
    LET x == StampNumber(ts, now) IN x.t = "nan" \/ ~ValidTime(x.n)

StampTime(ts, now) == StampNumber(ts, now).n

(***************************************************************************)
(* State                                                                   *)
(***************************************************************************)

VARIABLES
    deviceStatus,   \* the registry: its entries in insertion order
    clock,          \* milliseconds the wall clock has advanced since boot
    sweepDue,       \* the auto-offline interval has elapsed since its last run
    swept,          \* runs of the timer since a publish last stored a record (2: two or more)
    regressed,      \* devices an ingest stamped earlier than their firstSeen
    lastCap,        \* the keys the capacity server's last publish added and deleted
    inbox,          \* the text of the payload a client publishes on the status topic
    COMMAND_TOPIC,  \* process.env.COMMAND_TOPIC || 'devices/command'
    sent,           \* the messages POST /api/command has had the broker publish
    reply,          \* the response to the last POST /api/command
    running,        \* the callback the event loop is executing, and how far it has got
    snapshot,       \* the response to the last GET /api/devices
    settled,        \* the records the registry held when a callback returned
    creations,      \* how often each key has been added to the registry (2: twice or more)
    sid,            \* the session cookie the login-protected server last set
    served,         \* the last request to the login-protected server and its answer
    messages,       \* the broadcast-message server's list of messages
    arrived,        \* every message that server has accepted, in arrival order
    fresh,          \* how many of them it has accepted while being watched
    answer          \* the last POST /simply and the response to it

\* The variables of the login-protected server's HTTP side.
site == <<sid, served>>

\* The variables of the broadcast-message server.
board == <<messages, arrived, fresh, answer>>

\* The variables of the text in flight, of the command route, of the login
\* and of the message list.
io == <<inbox, COMMAND_TOPIC, sent, reply, site, board>>

\* The variables of the event loop and of the snapshot route.
loop == <<running, snapshot, settled>>

vars == <<deviceStatus, clock, sweepDue, swept, regressed, lastCap, io, loop, creations>>

\* The event loop between two callbacks.
Idle == [kind |-> "idle", device |-> <<>>, status |-> <<>>, iso |-> <<>>,
         now |-> <<0, 0>>, at |-> 0, wrote |-> 0, before |-> <<>>]

\* No request answered yet.
NoSnapshot == [items |-> <<>>, count |-> 0]

\* No response written.
NoReply == [code |-> 0, ok |-> FALSE, topic |-> "", payload |-> <<>>, error |-> ""]

\* No POST /simply has been answered yet.
NoAnswer ==
    [body |-> [kind |-> "none", message |-> JsUndefined], code |-> 0, error |-> "", count |-> 0,
     kept |-> TRUE]

\* cookies.sid when the request carries no sid cookie, or an empty one.
NoToken ==
    [b64 |-> [shape |-> "empty", u |-> "", exp |-> <<0, 0>>],
     sig |-> [key |-> "", over |-> [shape |-> "empty", u |-> "", exp |-> <<0, 0>>]]]

\* No request has reached the login-protected server yet.
NoRequest ==
    [method |-> "", path |-> "", cookie |-> [kind |-> "none", sid |-> NoToken],
     at |-> <<0, 0>>, route |-> "", code |-> 0, location |-> [to |-> "", next |-> ""],
     effect |-> "none"]

ONLINE == <<"o", "n", "l", "i", "n", "e">>

OFFLINE == <<"o", "f", "f", "l", "i", "n", "e">>

STATUS_TOPIC == "devices/status"

STALE_MS == 30000

SWEEP_MS == 5000

\* Wall-clock time at boot: 2024-10-04T00:00:00.000Z.
BootDay == 20000

\* The number of times the clock is advanced to a run of the timer.
MaxTicks == 2

\* The most the clock advances, in ms, while one run of the loop executes.
MaxSkew == 1

\* The time between two runs of the timer that the model follows: every
\* third period; the runs in between are those of an idle event loop.
TickMs == 3 * SWEEP_MS

Now == AddMs(<<BootDay, 0>>, clock)

\* Object.keys(deviceStatus)
Keys(reg) == {reg[i].device : i \in 1..Len(reg)}

IndexOf(reg, d) == CHOOSE i \in 1..Len(reg) : reg[i].device = d

\* The registry and the clock when the process has started.
Boot ==
    /\ deviceStatus = <<>>
    /\ clock = 0
    /\ sweepDue = FALSE
    /\ swept = 0
    /\ regressed = {}
    /\ lastCap = [created |-> {}, evicted |-> {}]
    /\ sent = <<>>
    /\ reply = NoReply
    /\ running = Idle
    /\ snapshot = NoSnapshot
    /\ settled = {}
    /\ creations = <<>>
    /\ sid = NoToken
    /\ served = NoRequest
    /\ fresh = 0
    /\ answer = NoAnswer

\* const messages = []
NoMessages ==
    /\ messages = <<>>
    /\ arrived = <<>>

Init ==
    /\ Boot
    /\ NoMessages
    /\ inbox = <<>>
    /\ COMMAND_TOPIC = "devices/command"

(***************************************************************************)
(* Inputs                                                                  *)
(***************************************************************************)

DeviceNames == <<"A", "B", "C", "D", "E">>

\* A device-supplied ts 25 s before boot, and the ts values 0 and "abc".
TsPast == JsNumber(<<BootDay - 1, MsPerDay - 25000>>)

TsZero == JsNumber(<<0, 0>>)

TsText == JsString(<<"a", "b", "c">>)

Statuses == {ONLINE, OFFLINE}

\* The payloads delivered on the status topic: device A reports either
\* status with and without a ts of its own, device B reports in plain text.
Payloads ==
    {JsonObject(JsString(<<"A">>), JsString(s), ts) :
        s \in Statuses, ts \in {JsUndefined, TsPast}}
    \cup {JsonObject(JsString(<<" ", "A", " ">>), JsString(<<" ">> \o ONLINE), TsZero),
          JsonObject(JsString(<<"A">>), JsString(ONLINE), TsText),
          JsonObject(JsString(<<"A">>), JsUndefined, JsUndefined),
          JsonNull,
          JsonScalar(<<"7">>),
          PlainText(<<"B", ",", " ">> \o ONLINE),
          PlainText(<<"B", ":">> \o OFFLINE),
          PlainText(<<"B">>)}

\* What the broker delivers: client publishes on the status topic, a client
\* publish on another topic and a publish of the broker's own.
Packets ==
    {[client |-> TRUE, topic |-> STATUS_TOPIC, payload |-> p] : p \in Payloads}
    \cup {[client |-> TRUE, topic |-> "devices/command",
           payload |-> PlainText(<<"A", ":">> \o ONLINE)],
          [client |-> FALSE, topic |-> STATUS_TOPIC,
           payload |-> PlainText(<<"A", ":">> \o ONLINE)]}

(***************************************************************************)
(* The liveness server                                                     *)
(***************************************************************************)

\* The update branch writing firstSeen where it should write lastSeen.
UpsertSwapped(reg, device, status, nowIso) ==
    IF device \notin Keys(reg)
    THEN Append(reg, [device |-> device, status |-> status, firstSeen |-> nowIso,
                      lastSeen |-> nowIso, updatedAt |-> nowIso])
    ELSE [reg EXCEPT ![IndexOf(reg, device)] =
              [@ EXCEPT !.status = status, !.firstSeen = nowIso, !.updatedAt = nowIso]]

\* The record replaced on every update, as the capacity server does.
UpsertReplacing(reg, device, status, nowIso) ==
    LET info == [device |-> device, status |-> status, firstSeen |-> nowIso,
                 lastSeen |-> nowIso, updatedAt |-> nowIso]
    IN  IF device \notin Keys(reg) THEN Append(reg, info)
        ELSE [reg EXCEPT ![IndexOf(reg, device)] = info]

\* updatedAt written only when the status changes.
UpsertOnChange(reg, device, status, nowIso) ==
    IF device \notin Keys(reg)
    THEN Append(reg, [device |-> device, status |-> status, firstSeen |-> nowIso,
                      lastSeen |-> nowIso, updatedAt |-> nowIso])
    ELSE LET old == reg[IndexOf(reg, device)]
         IN  [reg EXCEPT ![IndexOf(reg, device)] =
                 [old EXCEPT !.status = status, !.lastSeen = nowIso,
                             !.updatedAt = IF old.status = status THEN old.updatedAt
                                           ELSE nowIso]]

\* The counter of additions after the keys in `new` have been added.
Created(count, new) ==
    [d \in DOMAIN count \cup new |->
        LET n == IF d \in DOMAIN count THEN count[d] ELSE 0
        IN  IF d \notin new THEN n ELSE IF n < 2 THEN n + 1 ELSE 2]

\* The update branch without its assignment of updatedAt.
UpsertSeenOnly(reg, device, status, nowIso) ==
    IF device \notin Keys(reg)
    THEN Append(reg, [device |-> device, status |-> status, firstSeen |-> nowIso,
                      lastSeen |-> nowIso, updatedAt |-> nowIso])
    ELSE [reg EXCEPT ![IndexOf(reg, device)] =
              [@ EXCEPT !.status = status, !.lastSeen = nowIso]]

\* The create and update branches of the publish handler.
Upsert(reg, device, status, nowIso) ==
    IF device \notin Keys(reg)
    THEN Append(reg, [device |-> device, status |-> status, firstSeen |-> nowIso,
                      lastSeen |-> nowIso, updatedAt |-> nowIso])
    ELSE [reg EXCEPT ![IndexOf(reg, device)] =
              [@ EXCEPT !.status = status, !.lastSeen = nowIso, !.updatedAt = nowIso]]

\* The handler without its origin filter: the broker's own publishes are
\* ingested too.
OutcomeAnyOrigin(pkt) ==
    IF pkt.topic # STATUS_TOPIC THEN "other"
    ELSE IF ~Accepted(pkt.payload) THEN "ignored"
    ELSE IF StampThrows(ParsePayload(pkt.payload).ts, Now) THEN "threw"
    ELSE "stored"

\* The handler without its topic filter.
OutcomeAnyTopic(pkt) ==
    IF ~pkt.client THEN "skipped"
    ELSE IF ~Accepted(pkt.payload) THEN "ignored"
    ELSE IF StampThrows(ParsePayload(pkt.payload).ts, Now) THEN "threw"
    ELSE "stored"

\* How the handler leaves a delivered packet: "skipped" (no client), "other"
\* (not the status topic), "ignored" (bad format), "threw" (toISOString
\* raised RangeError) or "stored".
Outcome(pkt) ==
    IF ~pkt.client THEN "skipped"
    ELSE IF pkt.topic # STATUS_TOPIC THEN "other"
    ELSE IF ~Accepted(pkt.payload) THEN "ignored"
    ELSE IF StampThrows(ParsePayload(pkt.payload).ts, Now) THEN "threw"
    ELSE "stored"

\* The device, the status and the time a stored packet carries.
StoredDevice(pkt) == ParsePayload(pkt.payload).device.s

StoredStatus(pkt) == ParsePayload(pkt.payload).status.s

StoredTime(pkt) == StampTime(ParsePayload(pkt.payload).ts, Now)

\* The registry after the publish handler has run on a packet.
Handle(reg, pkt) ==
    IF Outcome(pkt) = "stored"
    THEN Upsert(reg, StoredDevice(pkt), StoredStatus(pkt), toISOString(StoredTime(pkt)))
    ELSE reg

\* aedes.on('publish', (packet, client) => ...)
Publish(pkt) ==
    /\ deviceStatus' = Handle(deviceStatus, pkt)
    /\ IF Outcome(pkt) = "stored"
       THEN LET d == StoredDevice(pkt)
            IN  /\ regressed' =
                      IF /\ d \in Keys(deviceStatus)
                         /\ TimeLess(StoredTime(pkt),
                                     DateParse(deviceStatus[IndexOf(deviceStatus, d)].firstSeen))
                      THEN regressed \cup {d} ELSE regressed
                /\ swept' = 0
       ELSE UNCHANGED <<regressed, swept>>
    /\ creations' = Created(creations, Keys(Handle(deviceStatus, pkt)) \ Keys(deviceStatus))
    /\ UNCHANGED <<clock, sweepDue, lastCap, io, loop>>

\* The time of the last message read from lastSeen alone.
LastOfLastSeen(info, now) == info.lastSeen

\* The time of the last message read from firstSeen.
LastOfFirstSeen(info, now) == info.firstSeen

\* info.lastSeen || info.updatedAt || info.firstSeen || new Date().toISOString()
LastOf(info, now) ==
    IF info.lastSeen # <<>> THEN info.lastSeen
    ELSE IF info.updatedAt # <<>> THEN info.updatedAt
    ELSE IF info.firstSeen # <<>> THEN info.firstSeen
    ELSE toISOString(now)

\* now - last >= STALE_MS: the threshold itself taken as stale.
StaleAtThreshold(info, now) ==
    TimeLeq(AddMs(DateParse(LastOf(info, now)), STALE_MS), now)

\* The distance between now and last tested, whichever of them is later.
StaleApart(info, now) ==
    LET last == LastOf(info, now)
    IN  IF ~IsoShaped(last) THEN TRUE
        ELSE \/ TimeLess(AddMs(DateParse(last), STALE_MS), now)
             \/ TimeLess(AddMs(now, STALE_MS), DateParse(last))

\* now - last > STALE_MS, or last is NaN
Stale(info, now) ==
    LET last == LastOf(info, now)
    IN  IF ~IsoShaped(last) THEN TRUE
        ELSE TimeLess(AddMs(DateParse(last), STALE_MS), now)

\* The test without the status: an offline entry is marked again.
DemotedAgain(info, now) == Stale(info, now)

\* The test that never passes: the timer marks nothing.
DemotedNever(info, now) == FALSE

\* stale && info.status !== 'offline'
Demoted(info, now) == Stale(info, now) /\ info.status # OFFLINE

\* The loop counting its own visit as a sighting of the device.
SweepEntryRefreshing(info, now, read) ==
    IF Demoted(info, now)
    THEN [info EXCEPT !.status = OFFLINE, !.lastSeen = toISOString(read),
                      !.updatedAt = toISOString(read)]
    ELSE info

\* One turn of the auto-offline loop; `read` is what new Date() returns.
SweepEntry(info, now, read) ==
    IF Demoted(info, now)
    THEN [info EXCEPT !.status = OFFLINE, !.updatedAt = toISOString(read)]
    ELSE info

\* The clock readings of one run of the loop, in milliseconds after the
\* run's Date.now(): new Date() is read again for every entry the loop
\* marks, each reading at or after the one before.
ClockReads(n) ==
    {r \in [1..n -> 0..MaxSkew] :
        /\ \A i \in 1..n : (clock % TickMs) + r[i] <= MaxSkew
        /\ \A i, j \in 1..n : i <= j => r[i] <= r[j]}

\* The registry after one run of the loop.
SweepAll(reg, now, r) ==
    [i \in 1..Len(reg) |-> SweepEntry(reg[i], now, AddMs(now, r[i]))]

Max(S) == CHOOSE x \in S : \A y \in S : y <= x

\* The timer deleting stale entries instead of marking them.
SweepDeleting ==
    /\ sweepDue
    /\ deviceStatus' = SelectSeq(deviceStatus, LAMBDA info : ~Stale(info, Now))
    /\ sweepDue' = FALSE
    /\ swept' = IF swept < 2 THEN swept + 1 ELSE 2
    /\ UNCHANGED <<clock, regressed, lastCap, io, loop, creations>>

\* setInterval(() => ..., 5000)
Sweep ==
    /\ sweepDue
    /\ \E r \in ClockReads(Len(deviceStatus)) :
          /\ deviceStatus' = SweepAll(deviceStatus, Now, r)
          /\ clock' = clock + Max({0} \cup {r[i] : i \in {j \in 1..Len(deviceStatus) :
                                                  Demoted(deviceStatus[j], Now)}})
    /\ sweepDue' = FALSE
    /\ swept' = IF swept < 2 THEN swept + 1 ELSE 2
    /\ UNCHANGED <<regressed, lastCap, io, loop, creations>>

\* The response listing only the devices that are not offline.
ApiDevicesOnline(reg) ==
    LET on == SelectSeq(reg, LAMBDA info : info.status # OFFLINE)
    IN  [items |-> [i \in 1..Len(on) |->
                       [device |-> on[i].device, status |-> on[i].status,
                        updatedAt |-> on[i].updatedAt, lastSeen |-> on[i].lastSeen,
                        firstSeen |-> on[i].firstSeen]],
         count |-> Len(on)]

\* GET /api/devices: the items of the response, and its count.
ApiDevices(reg) ==
    [items |-> [i \in 1..Len(reg) |->
                   [device |-> reg[i].device, status |-> reg[i].status,
                    updatedAt |-> reg[i].updatedAt, lastSeen |-> reg[i].lastSeen,
                    firstSeen |-> reg[i].firstSeen]],
     count |-> Len(reg)]

\* Time passes until a run of the timer falls due.
Tick ==
    /\ clock - (clock % TickMs) + TickMs <= MaxTicks * TickMs
    /\ clock' = clock + TickMs
    /\ sweepDue' = TRUE
    /\ UNCHANGED <<deviceStatus, swept, regressed, lastCap, io, loop, creations>>

Next ==
    \/ \E pkt \in Packets : Publish(pkt)
    \/ Sweep
    \/ Tick

Spec == Init /\ [][Next]_vars

\* The packets of the device followed until it falls silent.
PacketsLive ==
    {[client |-> TRUE, topic |-> STATUS_TOPIC, payload |-> p] :
        p \in {JsonObject(JsString(<<"A">>), JsString(ONLINE), JsUndefined),
               JsonObject(JsString(<<"A">>), JsString(ONLINE), TsPast),
               JsonObject(JsString(<<"A">>), JsString(OFFLINE), JsUndefined)}}

NextLive ==
    \/ \E pkt \in PacketsLive : Publish(pkt)
    \/ Sweep
    \/ Tick

\* The event loop keeps running: time passes and a timer that is due runs.
SpecLive == Init /\ [][NextLive]_vars /\ WF_vars(Tick) /\ WF_vars(Sweep)

(***************************************************************************)
(* The liveness server receiving one text payload                          *)
(***************************************************************************)

\* The longest text a client publishes.
MaxTextLen == 4

\* Letters, white space and the two separators: no text made of them is
\* JSON, so JSON.parse throws on every one and the catch branch runs.
TextChars == {"a", "b", " ", ",", ":"}

Texts == UNION {[1..n -> TextChars] : n \in 0..MaxTextLen}

\* The packet that carries the text.
TextPacket == [client |-> TRUE, topic |-> STATUS_TOPIC, payload |-> PlainText(inbox)]

InitText ==
    /\ Boot
    /\ NoMessages
    /\ inbox \in Texts
    /\ COMMAND_TOPIC = "devices/command"

NextText == Publish(TextPacket)

SpecText == InitText /\ [][NextText]_vars

(***************************************************************************)
(* The capacity server                                                     *)
(***************************************************************************)

\* const MAX_DEVICES = 1000, scaled down.
MAX_DEVICES == 2

MaxTicksCap == 1

\* A device-supplied ts in the year 10000: 253402300800000.
TsFar == JsNumber(<<2932897, 0>>)

\* Devices A, B, ... report "online" with no ts; the first and the last of
\* them (one more device than the registry may hold) also report with an
\* old and with a far ts, and A reports "offline" too.
PayloadsCap ==
    {JsonObject(JsString(<<DeviceNames[i]>>), JsString(ONLINE), JsUndefined) :
        i \in 1..(MAX_DEVICES + 1)}
    \cup {JsonObject(JsString(<<DeviceNames[i]>>), JsString(ONLINE), ts) :
        i \in {1, MAX_DEVICES + 1}, ts \in {TsPast, TsFar}}
    \cup {JsonObject(JsString(<<"A">>), JsString(OFFLINE), JsUndefined),
          JsonObject(JsString(<<"A">>), JsString(ONLINE), TsText),
          PlainText(<<"B">>)}

PacketsCap ==
    {[client |-> TRUE, topic |-> STATUS_TOPIC, payload |-> p] : p \in PayloadsCap}
    \cup {[client |-> TRUE, topic |-> "devices/command",
           payload |-> PlainText(<<"A", ":">> \o ONLINE)],
          [client |-> FALSE, topic |-> STATUS_TOPIC,
           payload |-> PlainText(<<"A", ":">> \o ONLINE)]}

\* The record added as a further entry whether or not its key is present.
ReplaceAppending(reg, device, status, iso) ==
    Append(reg, [device |-> device, status |-> status, updatedAt |-> iso])

\* deviceStatus[device] = { status, updatedAt }: an existing key keeps its
\* place, a new key is added last.
Replace(reg, device, status, iso) ==
    LET info == [device |-> device, status |-> status, updatedAt |-> iso]
    IN  IF device \in Keys(reg)
        THEN [reg EXCEPT ![IndexOf(reg, device)] = info]
        ELSE Append(reg, info)

\* The comparator reversed.
BeforeReversed(a, b) == StrLess(b.updatedAt, a.updatedAt)

\* deviceStatus[a].updatedAt < deviceStatus[b].updatedAt ? -1 : 1
Before(a, b) == StrLess(a.updatedAt, b.updatedAt)

\* The keys names.sort(...) may put first: those no other key sorts before.
\* (The comparator never answers 0, so the order of equal strings is the
\* sort's own choice.)
SortFirst(reg) ==
    {reg[i].device : i \in {j \in 1..Len(reg) :
                              \A k \in 1..Len(reg) : ~Before(reg[k], reg[j])}}

\* The key deleted together with every key added before it.
DeleteThrough(reg, key) == SubSeq(reg, IndexOf(reg, key) + 1, Len(reg))

\* delete deviceStatus[key]
Delete(reg, key) ==
    LET i == IndexOf(reg, key)
    IN  SubSeq(reg, 1, i - 1) \o SubSeq(reg, i + 1, Len(reg))

\* The limit tested one too high.
OverCapacityLate(reg) == Len(reg) > MAX_DEVICES + 1

\* names.length > MAX_DEVICES
OverCapacity(reg) == Len(reg) > MAX_DEVICES

\* The registries the publish handler of the capacity server may leave, each
\* with the keys the handler added and deleted.
HandleCap(reg, pkt) ==
    IF Outcome(pkt) = "stored"
    THEN LET reg1 == Replace(reg, StoredDevice(pkt), StoredStatus(pkt),
                                  toISOString(StoredTime(pkt)))
             new  == {StoredDevice(pkt)} \ Keys(reg)
         IN  IF OverCapacity(reg1)
             THEN {[reg |-> Delete(reg1, key), created |-> new, evicted |-> {key}] :
                      key \in SortFirst(reg1)}
             ELSE {[reg |-> reg1, created |-> new, evicted |-> {}]}
    ELSE {[reg |-> reg, created |-> {}, evicted |-> {}]}

\* aedes.on('publish', (packet, client) => ...) of the capacity server
PublishCap(pkt) ==
    /\ \E out \in HandleCap(deviceStatus, pkt) :
          /\ deviceStatus' = out.reg
          /\ lastCap' = [created |-> out.created, evicted |-> out.evicted]
          /\ creations' = Created(creations, out.created)
    /\ UNCHANGED <<clock, sweepDue, swept, regressed, io, loop>>

\* Time passes for the capacity server.
TickCap ==
    /\ clock + TickMs <= MaxTicksCap * TickMs
    /\ clock' = clock + TickMs
    /\ UNCHANGED <<deviceStatus, sweepDue, swept, regressed, lastCap, io, loop, creations>>

NextCap ==
    \/ \E pkt \in PacketsCap : PublishCap(pkt)
    \/ TickCap

SpecCap == Init /\ [][NextCap]_vars

(***************************************************************************)
(* The liveness server with its command route                              *)
(***************************************************************************)

\* The number of commands the broker publishes.
MaxCommands == 2

UpperCase == <<"A", "B", "C", "D", "E", "F", "G", "H", "I", "J", "K", "L", "M",
               "N", "O", "P", "Q", "R", "S", "T", "U", "V", "W", "X", "Y", "Z">>

LowerCase == <<"a", "b", "c", "d", "e", "f", "g", "h", "i", "j", "k", "l", "m",
               "n", "o", "p", "q", "r", "s", "t", "u", "v", "w", "x", "y", "z">>

\* String.prototype.toLowerCase, on the letters A to Z.
toLowerCase(s) ==
    [i \in 1..Len(s) |->
        IF \E k \in 1..Len(UpperCase) : UpperCase[k] = s[i]
        THEN LowerCase[CHOOSE k \in 1..Len(UpperCase) : UpperCase[k] = s[i]]
        ELSE s[i]]

ON == <<"o", "n">>

OFF == <<"o", "f", "f">>

\* What readJsonBody resolves to: an object with the fields device and status
\* (absent fields are JsUndefined; a body that is not JSON resolves to {}),
\* or null when the body is the text "null".
Body(device, status) == [kind |-> "object", device |-> device, status |-> status]

BodyNull == [kind |-> "null", device |-> JsUndefined, status |-> JsUndefined]

Bodies ==
    {Body(JsString(d), JsString(st)) :
        d \in {<<"A">>, <<" ", "A", " ">>},
        st \in {ON, <<"O", "N">>, <<" ", "O", "f", "f", " ">>, <<"t", "o", "g", "g", "l", "e">>}}
    \cup {Body(JsString(<<>>), JsString(ON)),
          Body(JsString(<<" ">>), JsString(ON)),
          Body(JsString(<<"A">>), JsUndefined),
          Body(JsUndefined, JsUndefined),
          BodyNull}

\* String(body.device || '').trim()
CommandDevice(body) == Trim(StringOr(body.device))

\* The status taken as given but for its case.
CommandStatusUntrimmed(body) == toLowerCase(StringOr(body.status))

\* The status taken as given but for its surrounding white space.
CommandStatusAsGiven(body) == Trim(StringOr(body.status))

\* String(body.status || '').trim().toLowerCase()
CommandStatus(body) == toLowerCase(Trim(StringOr(body.status)))

\* The validation that tests the device alone.
InvalidDeviceOnly(body) == CommandDevice(body) = <<>>

\* !device || !status || !['on', 'off'].includes(status)
Invalid(body) ==
    \/ CommandDevice(body) = <<>>
    \/ CommandStatus(body) = <<>>
    \/ CommandStatus(body) \notin {ON, OFF}

\* `${device}:${status}`
CommandPayload(body) == CommandDevice(body) \o <<":">> \o CommandStatus(body)

\* What the broker hands the 'publish' listener for a message of its own:
\* no client.  A device name followed by ":on" or ":off" is never JSON.
BrokerPacket(body) ==
    [client |-> FALSE, topic |-> COMMAND_TOPIC, payload |-> PlainText(CommandPayload(body))]

InvalidReply ==
    [code |-> 400, ok |-> FALSE, topic |-> "", payload |-> <<>>,
     error |-> "Invalid device/status"]

FailedReply ==
    [code |-> 500, ok |-> FALSE, topic |-> "", payload |-> <<>>, error |-> "Publish failed"]

OkReply(body) ==
    [code |-> 200, ok |-> TRUE, topic |-> COMMAND_TOPIC, payload |-> CommandPayload(body),
     error |-> ""]

\* aedes.publish of a valid command: the callback gets an error or none; in
\* the first case the message may or may not have reached the listeners.
\* `after` is the registry once the 'publish' listener has seen the message.
PublishCommand(body, after) ==
    \E err, emitted \in BOOLEAN :
        /\ reply' = IF err THEN FailedReply ELSE OkReply(body)
        /\ IF emitted \/ ~err
           THEN /\ sent' = Append(sent, [topic |-> COMMAND_TOPIC,
                                         payload |-> CommandPayload(body)])
                /\ deviceStatus' = after
                /\ creations' = Created(creations, Keys(after) \ Keys(deviceStatus))
           ELSE UNCHANGED <<sent, deviceStatus, creations>>

\* The command route keeping a record of what it told the device.
CommandRecording(body) ==
    /\ Len(sent) < MaxCommands
    /\ body.kind = "object"
    /\ ~Invalid(body)
    /\ PublishCommand(body, Upsert(deviceStatus, CommandDevice(body), CommandStatus(body),
                                   toISOString(Now)))
    /\ UNCHANGED <<clock, sweepDue, swept, regressed, lastCap, inbox, COMMAND_TOPIC, site, board,
                   loop>>

\* POST /api/command
Command(body) ==
    /\ Len(sent) < MaxCommands
    /\ IF body.kind = "null"
       THEN \* body.device raises TypeError: no response is written
            /\ reply' = NoReply
            /\ UNCHANGED <<sent, deviceStatus, creations>>
       ELSE IF Invalid(body)
       THEN /\ reply' = InvalidReply
            /\ UNCHANGED <<sent, deviceStatus, creations>>
       ELSE PublishCommand(body, Handle(deviceStatus, BrokerPacket(body)))
    /\ UNCHANGED <<clock, sweepDue, swept, regressed, lastCap, inbox, COMMAND_TOPIC, site, board,
                   loop>>

\* What the broker delivers beside its own messages: a device reporting on
\* the status topic, the same report on topics that are not the status
\* topic, and a broker-origin message on the status topic.
PacketsCmd ==
    {[client |-> TRUE, topic |-> t, payload |-> PlainText(<<"A", ":">> \o st)] :
        t \in {STATUS_TOPIC, "devices/command", "devices/status/", "devices/Status",
               "devices", ""},
        st \in {ONLINE, OFFLINE, ON}}
    \cup {[client |-> FALSE, topic |-> STATUS_TOPIC,
           payload |-> PlainText(<<"A", ":">> \o ON)]}

InitCmd ==
    /\ Boot
    /\ NoMessages
    /\ inbox = <<>>
    /\ COMMAND_TOPIC \in {"devices/command", STATUS_TOPIC}

NextCmd ==
    \/ \E body \in Bodies : Command(body)
    \/ \E pkt \in PacketsCmd : Publish(pkt)

SpecCmd == InitCmd /\ [][NextCmd]_vars

(***************************************************************************)
(* The liveness server, one assignment at a time                           *)
(***************************************************************************)

\* Node runs one callback at a time and each to its return: the publish
\* listener, the timer callback and the route of GET /api/devices hold no
\* await, so a callback begins only while no other is running.  Here the
\* registry is followed through every assignment of a callback.

\* The packets the event loop is followed with.
PacketsLoop ==
    {[client |-> TRUE, topic |-> STATUS_TOPIC, payload |-> p] :
        p \in {JsonObject(JsString(<<"A">>), JsString(ONLINE), TsPast),
               JsonObject(JsString(<<"A">>), JsString(OFFLINE), JsUndefined),
               PlainText(<<"B", ":">> \o ONLINE)}}

Range(reg) == {reg[i] : i \in 1..Len(reg)}

\* A publish callback that begins while another is between two of its
\* assignments, and runs to its return there.
BeginPublishPreempting(pkt) ==
    /\ running.kind \in {"idle", "publish"}
    /\ Outcome(pkt) = "stored"
    /\ LET d   == StoredDevice(pkt)
           st  == StoredStatus(pkt)
           iso == toISOString(StoredTime(pkt))
       IN  /\ deviceStatus' =
                 IF running.kind = "idle" /\ d \in Keys(deviceStatus)
                 THEN [deviceStatus EXCEPT ![IndexOf(deviceStatus, d)].status = st]
                 ELSE Upsert(deviceStatus, d, st, iso)
           /\ running' =
                 IF running.kind = "idle" /\ d \in Keys(deviceStatus)
                 THEN [Idle EXCEPT !.kind = "publish", !.device = d, !.status = st,
                                   !.iso = iso, !.wrote = 1, !.before = deviceStatus]
                 ELSE running
           /\ settled' = IF running.kind = "idle" /\ d \notin Keys(deviceStatus)
                         THEN settled \cup {deviceStatus'[Len(deviceStatus')]}
                         ELSE settled
           /\ creations' = Created(creations, {d} \ Keys(deviceStatus))
    /\ swept' = 0
    /\ UNCHANGED <<clock, sweepDue, regressed, lastCap, io, snapshot>>

\* The publish listener is called with a packet it stores: the create
\* branch is one assignment, the update branch begins with the first of its
\* three.
BeginPublish(pkt) ==
    /\ running = Idle
    /\ Outcome(pkt) = "stored"
    /\ LET d   == StoredDevice(pkt)
           st  == StoredStatus(pkt)
           iso == toISOString(StoredTime(pkt))
       IN  IF d \notin Keys(deviceStatus)
           THEN /\ deviceStatus' = Upsert(deviceStatus, d, st, iso)
                /\ settled' = settled \cup {deviceStatus'[Len(deviceStatus')]}
                /\ creations' = Created(creations, {d})
                /\ UNCHANGED running
           ELSE /\ deviceStatus' =
                      [deviceStatus EXCEPT ![IndexOf(deviceStatus, d)].status = st]
                /\ running' = [Idle EXCEPT !.kind = "publish", !.device = d, !.status = st,
                                           !.iso = iso, !.wrote = 1, !.before = deviceStatus]
                /\ UNCHANGED <<settled, creations>>
    /\ swept' = 0
    /\ UNCHANGED <<clock, sweepDue, regressed, lastCap, io, snapshot>>

\* The update branch makes its second assignment, or its third and returns.
StepPublish ==
    /\ running.kind = "publish"
    /\ LET i == IndexOf(deviceStatus, running.device)
       IN  IF running.wrote = 1
           THEN /\ deviceStatus' = [deviceStatus EXCEPT ![i].lastSeen = running.iso]
                /\ running' = [running EXCEPT !.wrote = 2]
                /\ UNCHANGED settled
           ELSE /\ deviceStatus' = [deviceStatus EXCEPT ![i].updatedAt = running.iso]
                /\ running' = Idle
                /\ settled' = settled \cup {deviceStatus'[i]}
    /\ UNCHANGED <<clock, sweepDue, swept, regressed, lastCap, io, snapshot, creations>>

\* The timer callback at entry i of the registry, or returned after the last.
SweepAt(i, now) ==
    IF i > Len(deviceStatus) THEN Idle
    ELSE [Idle EXCEPT !.kind = "sweep", !.now = now, !.at = i]

\* The timer callback is called: const now = Date.now().
BeginSweep ==
    /\ running = Idle
    /\ sweepDue
    /\ running' = SweepAt(1, Now)
    /\ sweepDue' = FALSE
    /\ swept' = IF swept < 2 THEN swept + 1 ELSE 2
    /\ UNCHANGED <<deviceStatus, clock, regressed, lastCap, io, snapshot, settled, creations>>

\* One step of the loop: the test of an entry with the first assignment if
\* it passes, or the second assignment.
StepSweep ==
    /\ running.kind = "sweep"
    /\ LET i == running.at
       IN  IF running.wrote = 1
           THEN /\ deviceStatus' = [deviceStatus EXCEPT ![i].updatedAt = toISOString(Now)]
                /\ running' = SweepAt(i + 1, running.now)
           ELSE IF Demoted(deviceStatus[i], running.now)
           THEN /\ deviceStatus' = [deviceStatus EXCEPT ![i].status = OFFLINE]
                /\ running' = [running EXCEPT !.wrote = 1]
           ELSE /\ UNCHANGED deviceStatus
                /\ running' = SweepAt(i + 1, running.now)
    /\ settled' = IF running' = Idle THEN settled \cup Range(deviceStatus') ELSE settled
    /\ UNCHANGED <<clock, sweepDue, swept, regressed, lastCap, io, snapshot, creations>>

\* The snapshot route answering whatever callback is running.
SnapshotAnytime ==
    /\ snapshot' = ApiDevices(deviceStatus)
    /\ UNCHANGED <<deviceStatus, clock, sweepDue, swept, regressed, lastCap, io, running,
                   settled, creations>>

\* GET /api/devices is answered.
Snapshot ==
    /\ running = Idle
    /\ snapshot' = ApiDevices(deviceStatus)
    /\ UNCHANGED <<deviceStatus, clock, sweepDue, swept, regressed, lastCap, io, running,
                   settled, creations>>

\* The number of runs of the timer the event loop is followed through.
MaxTicksLoop == 1

\* Time passes between two callbacks.
TickLoop ==
    /\ running = Idle
    /\ clock + TickMs <= MaxTicksLoop * TickMs
    /\ Tick

NextLoop ==
    \/ \E pkt \in PacketsLoop : BeginPublish(pkt)
    \/ StepPublish
    \/ BeginSweep
    \/ StepSweep
    \/ Snapshot
    \/ TickLoop

SpecLoop == Init /\ [][NextLoop]_vars

(***************************************************************************)
(* The liveness server receiving payloads at the edges of its input        *)
(***************************************************************************)

\* Device-supplied ts values: 5 ms before the epoch, 20 s after boot, the
\* last time a Date holds (8.64e15 ms) and one millisecond beyond it.
TsNegative == JsNumber(<<-1, MsPerDay - 5>>)

TsSoon == JsNumber(<<BootDay, 20000>>)

TsLast == JsNumber(<<MaxDay, 0>>)

TsBeyond == JsNumber(<<MaxDay, 1>>)

\* The texts "A:on", 7, ["A","on"] and {"status":"on"}.
QuotedText == <<"\"", "A", ":", "o", "n", "\"">>

NumberText == <<"7">>

ArrayText == <<"[", "\"", "A", "\"", ",", "\"", "o", "n", "\"", "]">>

ObjectText == <<"{", "\"", "s", "t", "a", "t", "u", "s", "\"", ":", "\"", "o", "n", "\"", "}">>

\* What JSON.parse makes of the payloads: objects with a ts of their own, an
\* object without a device, a string, a number, an array, null; and a text
\* that is not JSON.
PayloadsEdge ==
    {JsonObject(JsString(<<"A">>), JsString(ONLINE), ts) :
        ts \in {JsUndefined, TsNegative, TsSoon, TsFar, TsLast, TsBeyond}}
    \cup {[JsonObject(JsUndefined, JsString(<<"o", "n">>), JsUndefined)
              EXCEPT !.raw = ObjectText],
          JsonScalar(QuotedText),
          JsonScalar(NumberText),
          JsonScalar(ArrayText),
          JsonNull,
          PlainText(<<"A", ":">> \o OFFLINE)}

PacketsEdge == {[client |-> TRUE, topic |-> STATUS_TOPIC, payload |-> p] : p \in PayloadsEdge}

\* aedes.on('publish', (packet, client) => ...), the text of the payload
\* kept on record.
PublishEdge(pkt) ==
    /\ deviceStatus' = Handle(deviceStatus, pkt)
    /\ IF Outcome(pkt) = "stored"
       THEN LET d == StoredDevice(pkt)
            IN  /\ regressed' =
                      IF /\ d \in Keys(deviceStatus)
                         /\ TimeLess(StoredTime(pkt),
                                     DateParse(deviceStatus[IndexOf(deviceStatus, d)].firstSeen))
                      THEN regressed \cup {d} ELSE regressed
                /\ swept' = 0
       ELSE UNCHANGED <<regressed, swept>>
    /\ creations' = Created(creations, Keys(Handle(deviceStatus, pkt)) \ Keys(deviceStatus))
    /\ inbox' = pkt.payload.raw
    /\ UNCHANGED <<clock, sweepDue, lastCap, COMMAND_TOPIC, sent, reply, site, board, loop>>

NextEdge ==
    \/ \E pkt \in PacketsEdge : PublishEdge(pkt)
    \/ Sweep
    \/ Tick

SpecEdge == Init /\ [][NextEdge]_vars

(***************************************************************************)
(* The liveness server and a device that keeps reporting                   *)
(***************************************************************************)

\* The reports of the device: a status that is not "offline", no ts.
PacketsKeep ==
    {[client |-> TRUE, topic |-> STATUS_TOPIC, payload |-> p] :
        p \in {JsonObject(JsString(<<"A">>), JsString(ONLINE), JsUndefined),
               PlainText(<<"A", ":", "o", "n">>)}}

\* The number of times the clock is advanced while the device reports.
MaxTicksKeep == 3

\* Time passes until a run of the timer falls due, but never to more than
\* STALE_MS past the last report: the device reports again before that.
TickKeep ==
    /\ clock + TickMs <= MaxTicksKeep * TickMs
    /\ \A i \in 1..Len(deviceStatus) :
          TimeLeq(AddMs(Now, TickMs), AddMs(DateParse(deviceStatus[i].lastSeen), STALE_MS))
    /\ clock' = clock + TickMs
    /\ sweepDue' = TRUE
    /\ UNCHANGED <<deviceStatus, swept, regressed, lastCap, io, loop, creations>>

NextKeep ==
    \/ \E pkt \in PacketsKeep : Publish(pkt)
    \/ Sweep
    \/ TickKeep

SpecKeep == Init /\ [][NextKeep]_vars

(***************************************************************************)
(* The login-protected server                                              *)
(***************************************************************************)

ADMIN_USER == "admin"

ADMIN_PASS == "Harish@123"

SESSION_SECRET == "Harish@123"

\* Number(process.env.SESSION_MAX_AGE_MS ?? 8 * 60 * 60 * 1000)
SESSION_MAX_AGE == 28800000

\* What checkSession returns for a token it rejects.
Null == "null"

\* The text before the first "." of a token: the base64url of
\* JSON.stringify({ u, exp }), of some JSON object without exp, or of a
\* text that is not JSON.
Payload(u, exp) == [shape |-> "session", u |-> u, exp |-> exp]

PayloadNoExp(u) == [shape |-> "noexp", u |-> u, exp |-> <<0, 0>>]

PayloadText == [shape |-> "text", u |-> "", exp |-> <<0, 0>>]

\* An HMAC-SHA256 under a key: equal for equal keys and texts only.
Hmac(key, b64) == [key |-> key, over |-> b64]

\* crypto.createHmac('sha256', SESSION_SECRET).update(b64).digest('hex')
sign(b64) == Hmac(SESSION_SECRET, b64)

\* makeSession(username), called at `now`
makeSession(username, now) ==
    LET b64 == Payload(username, AddMs(now, SESSION_MAX_AGE))
    IN  [b64 |-> b64, sig |-> sign(b64)]

\* The session test that never looks at the expiry time.
checkSessionForever(token, now) ==
    IF token = NoToken THEN Null
    ELSE IF token.b64 = NoToken.b64 \/ token.sig = NoToken.sig THEN Null
    ELSE IF sign(token.b64) # token.sig THEN Null
    ELSE IF token.b64.shape = "text" THEN Null
    ELSE token.b64.u

\* checkSession(token), called at `now`
checkSession(token, now) ==
    IF token = NoToken THEN Null
    ELSE IF token.b64 = NoToken.b64 \/ token.sig = NoToken.sig THEN Null
    ELSE IF sign(token.b64) # token.sig THEN Null
    ELSE IF token.b64.shape = "text" THEN Null
    ELSE IF token.b64.shape = "noexp" \/ TimeLess(token.b64.exp, now) THEN Null
    ELSE token.b64.u

\* The Cookie header of a request: absent, a sid cookie, or a cookie whose
\* value decodeURIComponent rejects (a "%" not followed by two hex digits).
Cookie(kind, token) == [kind |-> kind, sid |-> token]

\* parseCookies(req).sid, for a header parseCookies does not raise on
parseCookies(cookie) == cookie.sid

\* pathname === '/login' || pathname === '/health'
isPublic(pathname) == pathname \in {"/login", "/health"}

\* The handler that answers a request: the cookie parser raising, the
\* authentication gate, one of the routes, or the 404 at the end.
Route(method, pathname, cookie, now) ==
    IF cookie.kind = "malformed" THEN "raised"
    ELSE IF  /\ checkSession(parseCookies(cookie), now) \in {Null, ""}
             /\ ~isPublic(pathname) THEN "gate"
    ELSE IF method = "GET" /\ pathname = "/login" THEN "GET /login"
    ELSE IF method = "POST" /\ pathname = "/login" THEN "POST /login"
    ELSE IF method = "GET" /\ pathname = "/logout" THEN "GET /logout"
    ELSE IF method = "GET" /\ pathname = "/health" THEN "GET /health"
    ELSE IF method = "GET" /\ pathname \in {"/", "/devices", "/control"} THEN "page"
    ELSE IF method = "GET" /\ pathname = "/api/devices" THEN "GET /api/devices"
    ELSE IF method = "POST" /\ pathname = "/api/command" THEN "POST /api/command"
    ELSE "404"

\* The form of POST /login: user, pass and next.
Forms ==
    {[user |-> ADMIN_USER, pass |-> pw, next |-> "/devices"] : pw \in {ADMIN_PASS, "guess"}}

\* userIn === ADMIN_USER && passIn === ADMIN_PASS
Matched(form) == form.user = ADMIN_USER /\ form.pass = ADMIN_PASS

\* The status line and the Location header of the answer.
Answer(route, pathname, form, commandCode) ==
    CASE route = "raised" -> [code |-> 0, location |-> [to |-> "", next |-> ""]]
      [] route = "gate" -> [code |-> 302, location |-> [to |-> "/login", next |-> pathname]]
      [] route = "POST /login" ->
            IF Matched(form)
            THEN [code |-> 302, location |-> [to |-> form.next, next |-> ""]]
            ELSE [code |-> 302, location |-> [to |-> "/login", next |-> form.next]]
      [] route = "GET /logout" -> [code |-> 302, location |-> [to |-> "/login", next |-> ""]]
      [] route = "POST /api/command" -> [code |-> commandCode, location |-> [to |-> "", next |-> ""]]
      [] route = "404" -> [code |-> 404, location |-> [to |-> "", next |-> ""]]
      [] OTHER -> [code |-> 200, location |-> [to |-> "", next |-> ""]]

\* The tokens a client may put in its sid cookie: the one the server last
\* set, that token with its expiry moved on or its signature cut off, a
\* session signed with another key, and texts signed with the server's key
\* that are not a session.
Tokens ==
    {sid,
     [b64 |-> Payload(sid.b64.u, AddMs(sid.b64.exp, SESSION_MAX_AGE)), sig |-> sid.sig],
     [b64 |-> sid.b64, sig |-> NoToken.sig],
     [b64 |-> Payload(ADMIN_USER, AddMs(Now, SESSION_MAX_AGE)),
      sig |-> Hmac("guess", Payload(ADMIN_USER, AddMs(Now, SESSION_MAX_AGE)))],
     [b64 |-> PayloadNoExp(ADMIN_USER), sig |-> sign(PayloadNoExp(ADMIN_USER))],
     [b64 |-> PayloadText, sig |-> sign(PayloadText)]}

\* The Cookie headers of the requests.
Cookies ==
    {Cookie("none", NoToken), Cookie("malformed", NoToken)}
    \cup {Cookie("sid", token) : token \in Tokens}

\* What readFormBody resolves to for a body without fields.
NoForm == [user |-> "", pass |-> "", next |-> "/"]

\* The requests: method, path and body.  The bodies of POST /api/command
\* are a valid command and an invalid one; a request without a body has
\* what readJsonBody resolves to for a text that is not JSON.
Requests ==
    {<<m, path, NoForm, Body(JsUndefined, JsUndefined)>> :
        m \in {"GET"},
        path \in {"/health", "/logout", "/devices", "/api/devices", "/health/"}}
    \cup {<<"POST", "/login", form, Body(JsUndefined, JsUndefined)>> : form \in Forms}
    \cup {<<"POST", "/api/command", NoForm, Body(JsString(<<"A">>), JsString(st))>> :
              st \in {ON, <<"t", "o", "g", "g", "l", "e">>}}

\* http.createServer((req, res) => ...): one request, to its answer.
Request(method, pathname, cookie, form, body) ==
    LET route == Route(method, pathname, cookie, Now)
    IN  /\ sid' = IF route = "POST /login" /\ Matched(form) THEN makeSession(form.user, Now)
                  ELSE IF route = "GET /logout" THEN NoToken
                  ELSE sid
        /\ snapshot' = IF route = "GET /api/devices" THEN ApiDevices(deviceStatus)
                       ELSE snapshot
        /\ IF route = "POST /api/command"
           THEN /\ Len(sent) < MaxCommands
                /\ IF Invalid(body)
                   THEN /\ reply' = InvalidReply
                        /\ UNCHANGED <<sent, deviceStatus, creations>>
                   ELSE PublishCommand(body, Handle(deviceStatus, BrokerPacket(body)))
           ELSE UNCHANGED <<reply, sent, deviceStatus, creations>>
        /\ served' =
              [method |-> method, path |-> pathname, cookie |-> cookie, at |-> Now,
               route |-> route,
               code |-> Answer(route, pathname, form, reply'.code).code,
               location |-> Answer(route, pathname, form, reply'.code).location,
               effect |-> IF sent' # sent THEN "published"
                          ELSE IF route = "GET /api/devices" THEN "read"
                          ELSE "none"]
        /\ UNCHANGED <<clock, sweepDue, swept, regressed, lastCap, inbox, COMMAND_TOPIC, board,
                       running, settled>>

\* A device reports, the time of its report in the packet.
ReportAuth ==
    Publish([client |-> TRUE, topic |-> STATUS_TOPIC,
             payload |-> JsonObject(JsString(<<"A">>), JsString(ONLINE), TsPast)])

\* The number of single milliseconds that pass.
MaxTicksAuth == 1

\* Time passes: a millisecond, or once the lifetime of a session.
TickAuth ==
    /\ \/ /\ clock % SESSION_MAX_AGE < MaxTicksAuth
          /\ clock' = clock + 1
       \/ /\ clock < SESSION_MAX_AGE
          /\ clock' = clock + SESSION_MAX_AGE
    /\ UNCHANGED <<deviceStatus, sweepDue, swept, regressed, lastCap, io, loop, creations>>

NextAuth ==
    \/ \E r \in Requests, cookie \in Cookies : Request(r[1], r[2], cookie, r[3], r[4])
    \/ ReportAuth
    \/ TickAuth

SpecAuth == Init /\ [][NextAuth]_vars

(***************************************************************************)
(* The broadcast-message server                                            *)
(***************************************************************************)

MAX_ITEMS == 500

\* The push that makes room by dropping the entry it has just added.
PushDroppingNewest(list, msg, at) ==
    LET pushed == Append(list, [msg |-> msg, at |-> at])
    IN  IF Len(pushed) > MAX_ITEMS THEN SubSeq(pushed, 1, Len(pushed) - 1) ELSE pushed

\* messages.push({ msg, at }); if (messages.length > MAX_ITEMS) messages.shift()
Push(list, msg, at) ==
    LET pushed == Append(list, [msg |-> msg, at |-> at])
    IN  IF Len(pushed) > MAX_ITEMS THEN Tail(pushed) ELSE pushed

\* The payload of the n-th publish of a client that numbers its messages.
Numbered(n) ==
    <<DigitChar(n \div 100), DigitChar((n \div 10) % 10), DigitChar(n % 10)>>

\* The list after that client's first n publishes, made as the process
\* starts, for n up to MAX_ITEMS: every push has added and none has shifted.
Filled(n) == [i \in 1..n |-> [msg |-> Numbered(i), at |-> toISOString(<<BootDay, 0>>)]]

\* The number of messages accepted after those.
MaxArrivals == 2

\* aedes.on('publish', (packet, client) => ...)
PublishMsg(client, payloadStr) ==
    /\ fresh < MaxArrivals
    /\ IF ~client
       THEN UNCHANGED <<messages, arrived, fresh>>
       ELSE /\ messages' = Push(messages, payloadStr, toISOString(Now))
            /\ arrived' = Append(arrived, [msg |-> payloadStr, at |-> toISOString(Now)])
            /\ fresh' = fresh + 1
    /\ UNCHANGED <<deviceStatus, clock, sweepDue, swept, regressed, lastCap, inbox,
                   COMMAND_TOPIC, sent, reply, site, answer, loop, creations>>

\* The body of a POST /simply: the text of a JSON object with or without a
\* message, the empty text, the text "null", or a text that is not JSON.
Simply(message) == [kind |-> "object", message |-> message]

BodiesMsg ==
    {Simply(JsString(<<"h", "i">>)), Simply(JsString(<<" ", "h", "i", " ">>)),
     Simply(JsString(<<>>)), Simply(JsString(<<" ", " ">>)), Simply(JsUndefined),
     Simply(JsNumber(<<0, 5>>))}
    \cup {[kind |-> kind, message |-> JsUndefined] : kind \in {"empty", "null", "malformed"}}

\* JSON.parse(body || '{}') raises, or reading json.message or calling
\* .trim() on it does: the text is not JSON, is "null", or holds a message
\* that is truthy and not a string.
Raises(body) ==
    \/ body.kind \in {"malformed", "null"}
    \/ Truthy(body.message) /\ body.message.t # "string"

\* (json.message || '').trim()
SimplyMsg(body) == Trim(StringOr(body.message))

\* POST /simply
PostSimply(body) ==
    /\ IF Raises(body)
       THEN /\ answer' = [body |-> body, code |-> 400, error |-> "Bad JSON", count |-> 0,
                          kept |-> TRUE]
            /\ UNCHANGED <<messages, arrived, fresh>>
       ELSE IF SimplyMsg(body) = <<>>
       THEN /\ answer' = [body |-> body, code |-> 400, error |-> "Invalid message",
                          count |-> 0, kept |-> TRUE]
            /\ UNCHANGED <<messages, arrived, fresh>>
       ELSE /\ fresh < MaxArrivals
            /\ messages' = Push(messages, SimplyMsg(body), toISOString(Now))
            /\ arrived' = Append(arrived, [msg |-> SimplyMsg(body), at |-> toISOString(Now)])
            /\ fresh' = fresh + 1
            /\ answer' = [body |-> body, code |-> 200, error |-> "",
                          count |-> Len(messages'), kept |-> messages' = messages]
    /\ UNCHANGED <<deviceStatus, clock, sweepDue, swept, regressed, lastCap, inbox,
                   COMMAND_TOPIC, sent, reply, site, loop, creations>>

\* The process has started; a client may have published up to MAX_ITEMS
\* numbered messages since.
InitMsg ==
    /\ Boot
    /\ inbox = <<>>
    /\ COMMAND_TOPIC = "devices/command"
    /\ \E n \in {0, MAX_ITEMS - 1, MAX_ITEMS} :
          /\ messages = Filled(n)
          /\ arrived = Filled(n)

NextMsg ==
    \/ \E client \in BOOLEAN, payloadStr \in {<<"a">>, <<>>} :
          PublishMsg(client, payloadStr)
    \/ \E body \in BodiesMsg : PostSimply(body)

SpecMsg == InitMsg /\ [][NextMsg]_vars

(***************************************************************************)
(* Claims                                                                  *)
(***************************************************************************)

\* A run of the auto-offline timer.
SweepStep == sweepDue /\ ~sweepDue'

\* The entry of a key.
Entry(reg, d) == reg[IndexOf(reg, d)]

\* C1: no step of the liveness server removes a device id from the registry
\* unless it is a capacity eviction, and a run of the auto-offline timer
\* leaves the set of device ids as it was.
C1_SweepNeverRemoves ==
    [][/\ Keys(deviceStatus) \ Keys(deviceStatus') \subseteq lastCap'.evicted
       /\ SweepStep => Keys(deviceStatus') = Keys(deviceStatus)]_vars

\* C1 witness: the timer has marked a device offline and its record is there.
C1_Witness ==
    \E i \in 1..Len(deviceStatus) :
        /\ deviceStatus[i].status = OFFLINE
        /\ deviceStatus[i].updatedAt # deviceStatus[i].lastSeen

\* A publish that stores a device the capacity server does not hold while it
\* holds MAX_DEVICES devices.
InsertAtCapacityStep ==
    /\ Len(deviceStatus) = MAX_DEVICES
    /\ clock' = clock
    /\ lastCap'.created # {}

\* C2: after every handled publish the capacity server holds at most
\* MAX_DEVICES records, and an insert at capacity deletes exactly one record.
C2_SizeBounded ==
    /\ [](Len(deviceStatus) <= MAX_DEVICES)
    /\ [][InsertAtCapacityStep =>
            /\ Cardinality(lastCap'.evicted) = 1
            /\ Len(deviceStatus') = MAX_DEVICES
            /\ Keys(deviceStatus') =
                  (Keys(deviceStatus) \cup lastCap'.created) \ lastCap'.evicted]_vars

\* C2 witness: the registry is full after a publish that evicted a record.
C2_Witness ==
    /\ Len(deviceStatus) = MAX_DEVICES
    /\ lastCap.evicted # {}
    /\ lastCap.created # {}

\* The packets that insert a new device at capacity in the current state.
InsertsAtCapacity ==
    {pkt \in PacketsCap :
        /\ Len(deviceStatus) = MAX_DEVICES
        /\ Outcome(pkt) = "stored"
        /\ StoredDevice(pkt) \notin Keys(deviceStatus)}

\* C3 as claimed: an eviction deletes exactly one record, the one whose
\* updatedAt is the earliest point in time of all records held at that
\* moment, and leaves every other record as it was.
C3_EvictsEarliest ==
    [][\A pkt \in InsertsAtCapacity :
          PublishCap(pkt) =>
              LET reg1 == Replace(deviceStatus, StoredDevice(pkt), StoredStatus(pkt),
                                  toISOString(StoredTime(pkt)))
              IN  /\ Cardinality(lastCap'.evicted) = 1
                  /\ \A d \in lastCap'.evicted : \A i \in 1..Len(reg1) :
                        TimeLeq(DateParse(Entry(reg1, d).updatedAt),
                                DateParse(reg1[i].updatedAt))
                  /\ \A i \in 1..Len(reg1) :
                        reg1[i].device \notin lastCap'.evicted =>
                            /\ reg1[i].device \in Keys(deviceStatus')
                            /\ Entry(deviceStatus', reg1[i].device) = reg1[i]]_vars

\* C4 as claimed: an insert at capacity evicts a device that was already
\* present, never the device just inserted.
C4_NeverEvictsNewDevice ==
    [][InsertAtCapacityStep =>
          /\ lastCap'.created \subseteq Keys(deviceStatus')
          /\ lastCap'.evicted \subseteq Keys(deviceStatus)]_vars

\* C4 amended: an insert at capacity evicts exactly one record, one whose
\* updatedAt string no other record's sorts before; it is the device just
\* inserted only when no record already present has an updatedAt string
\* that sorts before the new one, and it is a device already present
\* whenever one of them has.
C4_EvictsNewOnlyIfFirst ==
    \A pkt \in InsertsAtCapacity : \A out \in HandleCap(deviceStatus, pkt) :
        LET iso   == toISOString(StoredTime(pkt))
            older == {i \in 1..Len(deviceStatus) :
                        StrLess(deviceStatus[i].updatedAt, iso)}
        IN  /\ Cardinality(out.evicted) = 1
            /\ out.created = {StoredDevice(pkt)}
            /\ older # {} =>
                  /\ StoredDevice(pkt) \in Keys(out.reg)
                  /\ out.evicted \subseteq Keys(deviceStatus)
            /\ \A d \in out.evicted \cap Keys(deviceStatus) :
                  /\ ~StrLess(iso, Entry(deviceStatus, d).updatedAt)
                  /\ \A i \in 1..Len(deviceStatus) :
                        ~StrLess(deviceStatus[i].updatedAt,
                                 Entry(deviceStatus, d).updatedAt)

\* C4 witness: an insert at capacity has evicted a device that was present
\* and kept the new one, which carried a ts of its own.
C4_Witness ==
    /\ lastCap.evicted # {}
    /\ lastCap.created \subseteq Keys(deviceStatus)
    /\ \E d \in lastCap.created :
          Entry(deviceStatus, d).updatedAt = toISOString(TsFar.n)

\* firstSeen <= lastSeen and firstSeen <= updatedAt, as points in time.
FirstSeenEarliest(info) ==
    /\ TimeLeq(DateParse(info.firstSeen), DateParse(info.lastSeen))
    /\ TimeLeq(DateParse(info.firstSeen), DateParse(info.updatedAt))

\* C5 as claimed: every record has firstSeen <= lastSeen and
\* firstSeen <= updatedAt, whatever ts values the events carried.
C5_FirstSeenEarliestAlways ==
    \A i \in 1..Len(deviceStatus) : FirstSeenEarliest(deviceStatus[i])

\* C5 amended: every record has firstSeen <= lastSeen and
\* firstSeen <= updatedAt unless an ingest event for that device carried a
\* timestamp earlier than the device's firstSeen.
C5_FirstSeenEarliestUnlessRegressed ==
    \A i \in 1..Len(deviceStatus) :
        deviceStatus[i].device \notin regressed => FirstSeenEarliest(deviceStatus[i])

\* C5 witness: a device created with a ts of its own has reported again
\* more than STALE_MS later.
C5_Witness ==
    \E i \in 1..Len(deviceStatus) :
        /\ deviceStatus[i].device \notin regressed
        /\ deviceStatus[i].firstSeen = toISOString(TsPast.n)
        /\ TimeLess(AddMs(DateParse(deviceStatus[i].firstSeen), STALE_MS),
                    DateParse(deviceStatus[i].lastSeen))
        /\ deviceStatus[i].lastSeen = deviceStatus[i].updatedAt

\* C6: the publish handler, whatever packet it handles, and the timer,
\* whatever the clock reads, leave the firstSeen of every record as it is;
\* a record is created with firstSeen at the timestamp of the event that
\* created it.
C6_FirstSeenImmutable ==
    /\ \A pkt \in Packets :
          LET reg2 == Handle(deviceStatus, pkt)
          IN  /\ \A d \in Keys(deviceStatus) :
                    /\ d \in Keys(reg2)
                    /\ Entry(reg2, d).firstSeen = Entry(deviceStatus, d).firstSeen
              /\ \A d \in Keys(reg2) \ Keys(deviceStatus) :
                    DateParse(Entry(reg2, d).firstSeen) = StoredTime(pkt)
    /\ \A r \in ClockReads(Len(deviceStatus)) :
          LET reg2 == SweepAll(deviceStatus, Now, r)
          IN  /\ Len(reg2) = Len(deviceStatus)
              /\ \A i \in 1..Len(deviceStatus) :
                    /\ reg2[i].device = deviceStatus[i].device
                    /\ reg2[i].firstSeen = deviceStatus[i].firstSeen

\* C6 witness: a device first seen at boot has reported again later and has
\* then been marked offline by the timer.
C6_Witness ==
    \E i \in 1..Len(deviceStatus) :
        /\ deviceStatus[i].firstSeen = toISOString(<<BootDay, 0>>)
        /\ deviceStatus[i].lastSeen # deviceStatus[i].firstSeen
        /\ deviceStatus[i].updatedAt # deviceStatus[i].lastSeen

\* C7: a stored event for an unknown device creates a record with the
\* event's status and firstSeen = lastSeen = updatedAt = the event's
\* timestamp; for a known device it sets status, lastSeen and updatedAt to
\* the event's values, also when the status is the one stored, and leaves
\* firstSeen; GET /api/devices then lists the device once, with these values.
C7_UpdateSetsFields ==
    \A pkt \in Packets :
        Outcome(pkt) = "stored" =>
            LET d     == StoredDevice(pkt)
                reg2  == Handle(deviceStatus, pkt)
                items == ApiDevices(reg2).items
                shown == {i \in 1..Len(items) : items[i].device = d}
            IN  /\ Cardinality(shown) = 1
                /\ \A i \in shown :
                      /\ items[i].status = StoredStatus(pkt)
                      /\ DateParse(items[i].lastSeen) = StoredTime(pkt)
                      /\ DateParse(items[i].updatedAt) = StoredTime(pkt)
                      /\ items[i].lastSeen = items[i].updatedAt
                      /\ IF d \in Keys(deviceStatus)
                         THEN items[i].firstSeen = Entry(deviceStatus, d).firstSeen
                         ELSE items[i].firstSeen = items[i].lastSeen

\* C7 witness: one device as its first event left it, another as a later
\* event left it.
C7_Witness ==
    /\ \E i \in 1..Len(deviceStatus) :
          /\ deviceStatus[i].firstSeen = deviceStatus[i].lastSeen
          /\ deviceStatus[i].lastSeen = deviceStatus[i].updatedAt
    /\ \E i \in 1..Len(deviceStatus) :
          /\ deviceStatus[i].firstSeen # deviceStatus[i].lastSeen
          /\ deviceStatus[i].lastSeen = deviceStatus[i].updatedAt
          /\ deviceStatus[i].status = ONLINE

\* now - lastSeen > STALE_MS, from the record's lastSeen.
PastThreshold(info) == TimeLess(AddMs(DateParse(info.lastSeen), STALE_MS), Now)

\* C8 as claimed: a run of the timer sets status to "offline" and updatedAt
\* to the run's now for exactly the records that are not "offline" and have
\* now - lastSeen > STALE_MS, and leaves the others.
C8_SweepStampsNow ==
    [][SweepStep =>
          \A i \in 1..Len(deviceStatus) :
              deviceStatus'[i] =
                  IF deviceStatus[i].status # OFFLINE /\ PastThreshold(deviceStatus[i])
                  THEN [deviceStatus[i] EXCEPT !.status = OFFLINE,
                                               !.updatedAt = toISOString(Now)]
                  ELSE deviceStatus[i]]_vars

\* An entry last seen at now, as two later runs of the loop leave it.
ProbeAfter(ms) ==
    SweepEntry([device |-> <<"P">>, status |-> ONLINE, firstSeen |-> toISOString(Now),
                lastSeen |-> toISOString(Now), updatedAt |-> toISOString(Now)],
               AddMs(Now, ms), AddMs(Now, ms))

\* C8 amended: a run of the timer sets status to "offline" for exactly the
\* records that are not "offline" and have now - lastSeen > STALE_MS
\* (strictly), and sets their updatedAt to the clock reading taken when the
\* record is marked, which is at or after the run's now; it leaves the
\* others.  An "online" device last seen 31 s ago is "offline" after one
\* run, one last seen 30 s ago is not.
C8_SweepStampsClock ==
    /\ \A r \in ClockReads(Len(deviceStatus)) :
          \A i \in 1..Len(deviceStatus) :
              SweepAll(deviceStatus, Now, r)[i] =
                  IF deviceStatus[i].status # OFFLINE /\ PastThreshold(deviceStatus[i])
                  THEN [deviceStatus[i] EXCEPT !.status = OFFLINE,
                                               !.updatedAt = toISOString(AddMs(Now, r[i]))]
                  ELSE deviceStatus[i]
    /\ ProbeAfter(31000).status = OFFLINE
    /\ ProbeAfter(30000).status = ONLINE

\* C8 witness: the timer has just run; it has marked one device offline and
\* left online one that is exactly STALE_MS past its lastSeen.
C8_Witness ==
    /\ ~sweepDue
    /\ swept > 0
    /\ \E i \in 1..Len(deviceStatus) :
          /\ deviceStatus[i].status = OFFLINE
          /\ deviceStatus[i].updatedAt # deviceStatus[i].lastSeen
    /\ \E i \in 1..Len(deviceStatus) :
          /\ deviceStatus[i].status = ONLINE
          /\ AddMs(DateParse(deviceStatus[i].lastSeen), STALE_MS) = Now

\* C9: a run of the timer, whatever the clock reads, leaves lastSeen and
\* firstSeen of every record, and leaves the whole record when it is
\* "offline" already or is not past the threshold.
C9_SweepFrame ==
    \A r \in ClockReads(Len(deviceStatus)) :
        \A i \in 1..Len(deviceStatus) :
            LET after == SweepAll(deviceStatus, Now, r)[i]
            IN  /\ after.lastSeen = deviceStatus[i].lastSeen
                /\ after.firstSeen = deviceStatus[i].firstSeen
                /\ (deviceStatus[i].status = OFFLINE \/ ~PastThreshold(deviceStatus[i]))
                      => after = deviceStatus[i]

\* C9 witness: the timer has just run over a device that reported "offline"
\* itself and is past the threshold, and over one that is "online" and not
\* past it; both records are as their events left them.
C9_Witness ==
    /\ ~sweepDue
    /\ swept > 0
    /\ \E i \in 1..Len(deviceStatus) :
          /\ deviceStatus[i].status = OFFLINE
          /\ deviceStatus[i].updatedAt = deviceStatus[i].lastSeen
          /\ PastThreshold(deviceStatus[i])
    /\ \E i \in 1..Len(deviceStatus) :
          /\ deviceStatus[i].status = ONLINE
          /\ deviceStatus[i].updatedAt = deviceStatus[i].lastSeen
          /\ ~PastThreshold(deviceStatus[i])

Horizon == AddMs(<<BootDay, 0>>, MaxTicks * TickMs)

\* Device d is not "offline", and a run of the timer is still to come at
\* which d is past the threshold unless an event moves its lastSeen.
Waits(d) ==
    /\ d \in Keys(deviceStatus)
    /\ Entry(deviceStatus, d).status # OFFLINE
    /\ TimeLess(AddMs(DateParse(Entry(deviceStatus, d).lastSeen), STALE_MS), Horizon)
    /\ \/ clock - (clock % TickMs) < MaxTicks * TickMs
       \/ sweepDue /\ PastThreshold(Entry(deviceStatus, d))

\* Device d is "offline" and present, or a later event has moved its
\* lastSeen to within STALE_MS of the last run.
OfflineOrSeenLate(d) ==
    /\ d \in Keys(deviceStatus)
    /\ \/ Entry(deviceStatus, d).status = OFFLINE
       \/ ~TimeLess(AddMs(DateParse(Entry(deviceStatus, d).lastSeen), STALE_MS), Horizon)

\* C11: with time passing and the timer running when due, a device that is
\* not "offline" and whose lastSeen is more than STALE_MS before a run still
\* to come is eventually "offline", its record present, unless a later event
\* moves its lastSeen.
C11_SilentDeviceGoesOffline ==
    Waits(<<"A">>) ~> OfflineOrSeenLate(<<"A">>)

\* C11 witness: the last run of the timer has marked offline a device that
\* reported "online" with a ts of its own and then fell silent.
C11_Witness ==
    /\ clock >= MaxTicks * TickMs
    /\ ~sweepDue
    /\ \E i \in 1..Len(deviceStatus) :
          /\ deviceStatus[i].status = OFFLINE
          /\ deviceStatus[i].lastSeen = toISOString(TsPast.n)
          /\ deviceStatus[i].updatedAt # deviceStatus[i].lastSeen
          /\ ~TimeLess(DateParse(deviceStatus[i].updatedAt), Horizon)

\* The client packets on the status topic whose payload decodes to an object
\* with a device and a status that are strings, non-empty once trimmed.
StructuredPackets ==
    {pkt \in Packets :
        /\ pkt.client
        /\ pkt.topic = STATUS_TOPIC
        /\ pkt.payload.kind = "object"
        /\ pkt.payload.device.t = "string" /\ Trim(pkt.payload.device.s) # <<>>
        /\ pkt.payload.status.t = "string" /\ Trim(pkt.payload.status.s) # <<>>}

\* C12 as claimed: whatever the payload, the publish handler runs to its end
\* without raising: the event is stored or dropped.
C12_IngestNeverThrows ==
    \A pkt \in Packets :
        /\ Outcome(pkt) \in {"skipped", "other", "ignored", "stored"}
        /\ ~(Accepted(pkt.payload) /\ StampThrows(ParsePayload(pkt.payload).ts, Now))

\* C13 as claimed: a structured payload whose ts is absent or is not a
\* number is stored, and its record carries the receive time.
C13_BadTsFallsBack ==
    \A pkt \in StructuredPackets :
        pkt.payload.ts.t # "number" =>
            /\ Outcome(pkt) = "stored"
            /\ Entry(Handle(deviceStatus, pkt), StoredDevice(pkt)).lastSeen
                  = toISOString(Now)

\* C14 as claimed: a structured payload is stored with its device and status
\* trimmed, and with its ts as the record's timestamp whenever ts is a
\* number, 0 included.
C14_NumericTsUsed ==
    \A pkt \in StructuredPackets :
        pkt.payload.ts.t \in {"number", "undefined"} =>
            LET d    == Trim(pkt.payload.device.s)
                reg2 == Handle(deviceStatus, pkt)
            IN  /\ d \in Keys(reg2)
                /\ Entry(reg2, d).status = Trim(pkt.payload.status.s)
                /\ DateParse(Entry(reg2, d).lastSeen) =
                      IF pkt.payload.ts.t = "number" THEN pkt.payload.ts.n ELSE Now

\* The end of the second field of a text whose first separator is at i: the
\* index of its next separator, or one past the end of the text.
SecondFieldEnd(raw, i) ==
    IF \E j \in (i + 1)..Len(raw) : raw[j] \in {",", ":"}
    THEN CHOOSE j \in (i + 1)..Len(raw) :
            /\ raw[j] \in {",", ":"}
            /\ \A k \in (i + 1)..(j - 1) : raw[k] \notin {",", ":"}
    ELSE Len(raw) + 1

\* C15: a text that is not JSON is stored by the fallback exactly when it has
\* a comma or a colon and the field before its first separator and the field
\* after it (up to the next separator or the end) are both non-empty once
\* trimmed; the record then has the first field as device and the second as
\* status.  A text with no separator, or with either field empty, is dropped
\* and leaves the registry as it is.
C15_FallbackTakesFirstTwoFields ==
    LET i  == FirstSeparator(inbox)
        t1 == Trim(SubSeq(inbox, 1, i - 1))
        t2 == Trim(SubSeq(inbox, i + 1, SecondFieldEnd(inbox, i) - 1))
    IN  IF i > 0 /\ t1 # <<>> /\ t2 # <<>>
        THEN /\ Outcome(TextPacket) = "stored"
             /\ t1 \in Keys(Handle(deviceStatus, TextPacket))
             /\ Entry(Handle(deviceStatus, TextPacket), t1).status = t2
             /\ Keys(Handle(deviceStatus, TextPacket)) = Keys(deviceStatus) \cup {t1}
        ELSE /\ Outcome(TextPacket) = "ignored"
             /\ Handle(deviceStatus, TextPacket) = deviceStatus

\* C15 witness: the text " a:b" has been stored as device "a" with status "b".
C15_Witness ==
    /\ inbox = <<" ", "a", ":", "b">>
    /\ Len(deviceStatus) = 1
    /\ deviceStatus[1].device = <<"a">>
    /\ deviceStatus[1].status = <<"b">>

\* The request bodies that carry a device and a status and pass validation.
ValidBodies == {body \in Bodies : body.kind = "object" /\ ~Invalid(body)}

\* C16: the publish handler leaves the registry as it is on every packet
\* that has no client, the message of every valid command among them,
\* whether COMMAND_TOPIC is "devices/command" or the status topic itself;
\* no step that publishes a command changes the registry.
C16_BrokerOriginIgnored ==
    /\ [](/\ \A pkt \in PacketsCmd :
                ~pkt.client => Handle(deviceStatus, pkt) = deviceStatus
          /\ \A body \in ValidBodies :
                Handle(deviceStatus, BrokerPacket(body)) = deviceStatus)
    /\ [][sent' # sent => deviceStatus' = deviceStatus]_vars

\* C16 witness: with the command topic set to the status topic, a command
\* for device A has been published and the registry holds no record.
C16_Witness ==
    /\ COMMAND_TOPIC = STATUS_TOPIC
    /\ reply.code = 200
    /\ Len(sent) >= 1
    /\ sent[Len(sent)].topic = STATUS_TOPIC
    /\ deviceStatus = <<>>

\* C17: the publish handler leaves the registry as it is on every packet
\* whose topic is not exactly "devices/status", whatever it carries; with no
\* timer running, every step that changes the registry is the handling of a
\* client packet on that topic.
C17_OtherTopicsIgnored ==
    /\ [](\A pkt \in PacketsCmd :
            pkt.topic # STATUS_TOPIC => Handle(deviceStatus, pkt) = deviceStatus)
    /\ [][deviceStatus' # deviceStatus =>
            \E pkt \in PacketsCmd :
                /\ pkt.client
                /\ pkt.topic = STATUS_TOPIC
                /\ deviceStatus' = Handle(deviceStatus, pkt)]_vars

\* C17 witness: the registry holds device A as a report on the status topic
\* left it, no command having been sent.
C17_Witness ==
    /\ Len(deviceStatus) = 1
    /\ deviceStatus[1].device = <<"A">>
    /\ deviceStatus[1].status = ONLINE
    /\ sent = <<>>
    /\ reply = NoReply

C19_PayloadAsGiven ==
    [][\A body \in ValidBodies :
          (Command(body) /\ reply'.code = 200)
          => LET payload == StringOr(body.device) \o <<":">> \o CommandStatusUntrimmed(body)
             IN  /\ sent' = Append(sent, [topic |-> COMMAND_TOPIC, payload |-> payload])
                 /\ reply'.topic = COMMAND_TOPIC
                 /\ reply'.payload = payload]_vars

\* C19 amended: a command that passes validation and whose publish succeeds
\* appends exactly one message to what the broker has sent, on
\* COMMAND_TOPIC, with payload device ":" status, both trimmed of
\* surrounding white space and the status lowercased; the response is 200
\* with ok, this topic and this payload.  A command that passes validation
\* publishes at most one message and is answered 200 or 500.
C19_PayloadTrimmed ==
    [][\A body \in Bodies :
          (/\ body.kind = "object"
           /\ Trim(StringOr(body.device)) # <<>>
           /\ toLowerCase(Trim(StringOr(body.status))) \in {ON, OFF}
           /\ Command(body))
          => LET payload == Trim(StringOr(body.device)) \o <<":">>
                               \o toLowerCase(Trim(StringOr(body.status)))
                 message == [topic |-> COMMAND_TOPIC, payload |-> payload]
             IN  /\ reply'.code \in {200, 500}
                 /\ sent' \in {sent, Append(sent, message)}
                 /\ reply'.code = 200 =>
                       /\ sent' = Append(sent, message)
                       /\ reply'.ok
                       /\ reply'.topic = COMMAND_TOPIC
                       /\ reply'.payload = payload]_vars

\* C19 witness: the command { device: " A ", status: " Off " } or one like
\* it has been published as "A:off" on "devices/command" and answered so.
C19_Witness ==
    /\ COMMAND_TOPIC = "devices/command"
    /\ reply.code = 200
    /\ reply.payload = <<"A", ":">> \o OFF
    /\ Len(sent) = 1
    /\ sent[1] = [topic |-> "devices/command", payload |-> <<"A", ":">> \o OFF]

\* C20: every step of the command route, whether it answers 200, 400 or
\* 500, leaves the registry as it is; the answer to a failed publish is 500
\* with an error and without ok.
C20_DispatchKeepsRegistry ==
    /\ [][(reply' # reply \/ sent' # sent) => deviceStatus' = deviceStatus]_vars
    /\ [][\A body \in Bodies : Command(body) => deviceStatus' = deviceStatus]_vars
    /\ [](/\ reply.code \in {0, 200, 400, 500}
          /\ reply.code = 500 => (~reply.ok /\ reply.error = "Publish failed"))

\* C20 witness: a publish has failed and has been answered 500; the registry
\* holds what a device reported.
C20_Witness ==
    /\ reply = FailedReply
    /\ Len(deviceStatus) = 1
    /\ deviceStatus[1].status = OFFLINE

\* C21: a response of GET /api/devices holds no partly updated record: each
\* of its items is a record as the registry held it when a publish callback
\* or a run of the timer returned.
C21_SnapshotHoldsWholeRecords ==
    \A i \in 1..Len(snapshot.items) : snapshot.items[i] \in settled

\* A response that lists a device the timer has marked is on record, and an
\* update of that device is now between two of its assignments.
C21_Witness ==
    /\ running.kind = "publish"
    /\ \E i \in 1..Len(snapshot.items) :
          /\ snapshot.items[i].device = running.device
          /\ snapshot.items[i].status = OFFLINE
          /\ snapshot.items[i].updatedAt # snapshot.items[i].lastSeen

\* C22: updates of one device take effect one after another: while a
\* publish callback is between its assignments no other begins, and when it
\* returns the registry is what the whole update makes of the registry the
\* callback found.
C22_UpdatesAreSerial ==
    [][running.kind = "publish" =>
          /\ running'.kind = "publish" => running'.before = running.before
          /\ running' = Idle =>
                deviceStatus' = Upsert(running.before, running.device, running.status,
                                       running.iso)]_vars

\* A second update of a device has run to its end after the first.
C22_Witness ==
    /\ running = Idle
    /\ \E i \in 1..Len(deviceStatus) :
          /\ deviceStatus[i].status = ONLINE
          /\ deviceStatus[i].lastSeen = deviceStatus[i].updatedAt
          /\ \E r \in settled :
                /\ r.device = deviceStatus[i].device
                /\ r.status = OFFLINE
                /\ r.lastSeen = r.updatedAt
                /\ StrLess(deviceStatus[i].lastSeen, r.lastSeen)

\* C23: a response of GET /api/devices lists every record once, in the
\* order of the registry, with the device, status, updatedAt, lastSeen and
\* firstSeen the registry holds; its count is the number of records; the
\* registry is as it was.
C23_SnapshotMatchesRegistry ==
    [][snapshot' # snapshot =>
          /\ deviceStatus' = deviceStatus
          /\ snapshot'.count = Len(deviceStatus)
          /\ Len(snapshot'.items) = Len(deviceStatus)
          /\ Cardinality({snapshot'.items[i].device : i \in 1..Len(snapshot'.items)})
                = Len(deviceStatus)
          /\ \A i \in 1..Len(deviceStatus) :
                /\ snapshot'.items[i].device = deviceStatus[i].device
                /\ snapshot'.items[i].status = deviceStatus[i].status
                /\ snapshot'.items[i].updatedAt = deviceStatus[i].updatedAt
                /\ snapshot'.items[i].lastSeen = deviceStatus[i].lastSeen
                /\ snapshot'.items[i].firstSeen = deviceStatus[i].firstSeen]_vars

\* A response lists two devices, one of them offline.
C23_Witness ==
    /\ snapshot.count = 2
    /\ snapshot = ApiDevices(deviceStatus)
    /\ \E i \in 1..2 : snapshot.items[i].status = OFFLINE

\* C24 as claimed: in a run no key is added to the registry more than once,
\* and the registry never holds a key twice.
C24_CreatedOnce ==
    /\ \A d \in DOMAIN creations : creations[d] <= 1
    /\ Cardinality(Keys(deviceStatus)) = Len(deviceStatus)

\* C24: a record is created only by an ingest that names a key the registry
\* does not hold: the first ingest of the key or, once the key has been
\* evicted, the first after the eviction.  An ingest of a key the registry
\* holds creates nothing, and the registry never holds a key twice.
C24_CreatedOnlyWhenAbsent ==
    [][/\ \A d \in DOMAIN creations' :
             (d \notin DOMAIN creations \/ creations'[d] # creations[d])
                => d \notin Keys(deviceStatus)
       /\ \A d \in Keys(deviceStatus') \ Keys(deviceStatus) :
             /\ d \in DOMAIN creations'
             /\ d \in DOMAIN creations => creations'[d] = 2
       /\ Cardinality(Keys(deviceStatus')) = Len(deviceStatus')]_vars

\* A key that was evicted has been added again, and the registry is full.
C24_Witness ==
    /\ Len(deviceStatus) = MAX_DEVICES
    /\ \E d \in Keys(deviceStatus) : creations[d] = 2

\* The device and the status a payload reports, surrounding white space
\* removed: the fields of a JSON object, or the two sides of the separator
\* of a text.
Reported(p) ==
    IF p.kind = "object"
    THEN [device |-> Trim(p.device.s), status |-> Trim(p.status.s)]
    ELSE LET i == FirstSeparator(p.raw)
         IN  [device |-> Trim(SubSeq(p.raw, 1, i - 1)),
              status |-> Trim(SubSeq(p.raw, i + 1, Len(p.raw)))]

\* C25: every record has a device id and a status that are not empty; its
\* status is the status some client reported for that device with the white
\* space around it removed, or it is "offline" and the timer has written it.
C25_RecordsNamedAndLabelled ==
    \A i \in 1..Len(deviceStatus) :
        LET info == deviceStatus[i]
        IN  /\ info.device # <<>>
            /\ info.status # <<>>
            /\ \/ \E pkt \in Packets :
                     /\ pkt.client
                     /\ pkt.topic = STATUS_TOPIC
                     /\ Reported(pkt.payload) = [device |-> info.device,
                                                 status |-> info.status]
               \/ /\ info.status = OFFLINE
                  /\ StrLess(info.lastSeen, info.updatedAt)

\* The registry holds a device the timer has marked and a device that is
\* as it reported.
C25_Witness ==
    /\ \E i \in 1..Len(deviceStatus) :
          /\ deviceStatus[i].device = <<"A">>
          /\ deviceStatus[i].status = OFFLINE
          /\ StrLess(deviceStatus[i].lastSeen, deviceStatus[i].updatedAt)
    /\ \E i \in 1..Len(deviceStatus) :
          /\ deviceStatus[i].device = <<"B">>
          /\ deviceStatus[i].status = ONLINE

\* C26 as claimed: a text is cut at its first separator only; the device is
\* the text before it and the status all the text after it, both trimmed,
\* and the text is stored when neither is empty.
C26_FallbackSplitsOnce ==
    LET i  == FirstSeparator(inbox)
        t1 == Trim(SubSeq(inbox, 1, i - 1))
        t2 == Trim(SubSeq(inbox, i + 1, Len(inbox)))
    IN  i > 0 /\ t1 # <<>> /\ t2 # <<>>
           => /\ Outcome(TextPacket) = "stored"
              /\ t1 \in Keys(Handle(deviceStatus, TextPacket))
              /\ Entry(Handle(deviceStatus, TextPacket), t1).status = t2

\* The text of the payload up to its second separator.
FirstTwoFields ==
    SubSeq(inbox, 1, SecondFieldEnd(inbox, FirstSeparator(inbox)) - 1)

\* C26: the fallback cuts the text at every comma and colon and uses the
\* first two fields only: a text is handled as the same text ended before its
\* second separator would be, so what follows the second separator reaches
\* neither the device nor the status, and no stored status holds a separator.
C26_FallbackDropsFurtherFields ==
    /\ FirstSeparator(inbox) > 0 =>
          LET cut == [TextPacket EXCEPT !.payload = PlainText(FirstTwoFields)]
          IN  /\ Outcome(TextPacket) = Outcome(cut)
              /\ Handle(deviceStatus, TextPacket) = Handle(deviceStatus, cut)
              /\ ParsePayload(TextPacket.payload) = FallbackFirstOnly(FirstTwoFields)
    /\ \A i \in 1..Len(deviceStatus) :
          \A k \in 1..Len(deviceStatus[i].status) :
              deviceStatus[i].status[k] \notin {",", ":"}

\* The text "a:b," has been stored as device "a" with status "b".
C26_Witness ==
    /\ inbox = <<"a", ":", "b", ",">>
    /\ Len(deviceStatus) = 1
    /\ deviceStatus[1].device = <<"a">>
    /\ deviceStatus[1].status = <<"b">>

\* The packet that carries the text of a payload as a text that is not JSON.
AsText(pkt) == [pkt EXCEPT !.payload = PlainText(pkt.payload.raw)]

\* A packet is handled as the fallback handles its text.
HandledByFallback(pkt) ==
    /\ Outcome(pkt) = Outcome(AsText(pkt))
    /\ Handle(deviceStatus, pkt) = Handle(deviceStatus, AsText(pkt))

\* A packet is handled by the fields of the object it decodes as.
HandledByFields(pkt) ==
    /\ ParsePayload(pkt.payload).device.s = Trim(StringOr(pkt.payload.device))
    /\ ParsePayload(pkt.payload).status.s = Trim(StringOr(pkt.payload.status))
    /\ StringOr(pkt.payload.device) = <<>> =>
          /\ Outcome(pkt) = "ignored"
          /\ Handle(deviceStatus, pkt) = deviceStatus

\* C27 as claimed: every payload that does not decode as a JSON object, the
\* JSON strings, numbers, arrays and null among them, is handled as the
\* fallback handles its text; a payload that decodes as an object is handled
\* by its fields.
C27_FallbackUnlessObject ==
    \A pkt \in PacketsEdge :
        IF pkt.payload.kind = "object" THEN HandledByFields(pkt)
        ELSE HandledByFallback(pkt)

\* C27: the fallback handles a payload exactly when JSON.parse rejects it or
\* it is the JSON value null.  A payload that is a JSON string, number or
\* array is dropped and leaves the registry as it is, whatever the fallback
\* would make of its text; a payload that decodes as an object is handled by
\* its fields.
C27_FallbackOnThrowOnly ==
    \A pkt \in PacketsEdge :
        CASE pkt.payload.kind = "object" -> HandledByFields(pkt)
          [] pkt.payload.kind \in {"text", "null"} -> HandledByFallback(pkt)
          [] OTHER -> /\ Outcome(pkt) = "ignored"
                      /\ Handle(deviceStatus, pkt) = deviceStatus

\* The JSON string "A:on" was delivered last; the registry holds device A
\* and no device named by the text of that string.
C27_Witness ==
    /\ inbox = QuotedText
    /\ Keys(deviceStatus) = {<<"A">>}
    /\ Outcome(AsText(CHOOSE pkt \in PacketsEdge : pkt.payload.raw = QuotedText)) = "stored"

\* C28: a packet whose ts is a number below zero or above the receive time
\* is stored and raises nothing: the record's lastSeen and updatedAt, and
\* its firstSeen when the packet creates it, are that ts.
C28_ExtremeTsStored ==
    \A pkt \in PacketsEdge :
        LET ts == pkt.payload.ts
        IN  /\ pkt.payload.kind = "object"
            /\ ts.t = "number"
            /\ TimeLess(ts.n, <<0, 0>>) \/ TimeLess(Now, ts.n)
            => /\ Outcome(pkt) = "stored"
               /\ LET d    == Trim(pkt.payload.device.s)
                      info == Entry(Handle(deviceStatus, pkt), d)
                  IN  /\ DateParse(info.lastSeen) = ts.n
                      /\ DateParse(info.updatedAt) = ts.n
                      /\ d \notin Keys(deviceStatus) => DateParse(info.firstSeen) = ts.n

\* Timestamps a record may hold when the timer reads it: none, a string
\* that holds no date, the time of the run and a time a day before boot.
Missing == <<>>

NoDate == <<"a", "b", "c">>

Recent == toISOString(Now)

Old == toISOString(<<BootDay - 1, 0>>)

\* Records of a device that is not offline, each timestamp any of the four.
ProbeRecords ==
    {[device |-> <<"A">>, status |-> ONLINE, firstSeen |-> f, lastSeen |-> l,
      updatedAt |-> u] : f, l, u \in {Missing, NoDate, Recent, Old}}

\* The loop body marks the record.
Marks(info) == SweepEntry(info, Now, Now).status = OFFLINE

C30_FutureLastSeenKept ==
    \A r \in ClockReads(Len(deviceStatus)) :
        \A i \in 1..Len(deviceStatus) :
            TimeLess(Now, DateParse(deviceStatus[i].lastSeen))
               => SweepAll(deviceStatus, Now, r)[i] = deviceStatus[i]

\* The timer has run twice since a device reported with a ts in the year
\* 10000; the device is online still.
C30_Witness ==
    /\ swept = 2
    /\ ~sweepDue
    /\ \E i \in 1..Len(deviceStatus) :
          /\ deviceStatus[i].status = ONLINE
          /\ deviceStatus[i].lastSeen = toISOString(TsFar.n)

\* C31: the publish handler of the capacity server removes a record only
\* when the packet it stores names a device the registry does not hold, and
\* then one record at most; a packet that names a device the registry holds,
\* and a packet that is not stored, leave every key in the registry.
C31_EvictsOnlyOnCreate ==
    \A pkt \in PacketsCap : \A out \in HandleCap(deviceStatus, pkt) :
        LET removed == (Keys(deviceStatus) \cup out.created) \ Keys(out.reg)
        IN  /\ Cardinality(removed) <= 1
            /\ removed = out.evicted
            /\ removed # {} =>
                  /\ Outcome(pkt) = "stored"
                  /\ StoredDevice(pkt) \notin Keys(deviceStatus)
                  /\ out.created = {StoredDevice(pkt)}
            /\ Outcome(pkt) # "stored" \/ StoredDevice(pkt) \in Keys(deviceStatus)
                  => Keys(out.reg) = Keys(deviceStatus)

\* The registry is full, a device has been evicted from it before, and the
\* last publish updated a device it held and removed nothing.
C31_Witness ==
    /\ Len(deviceStatus) = MAX_DEVICES
    /\ DOMAIN creations \ Keys(deviceStatus) # {}
    /\ lastCap = [created |-> {}, evicted |-> {}]
    /\ \E i \in 1..Len(deviceStatus) : deviceStatus[i].status = OFFLINE

\* The packets that give the handler no device or no status: the object
\* without a device, the JSON string, number and array, and null.
FailedPackets ==
    {pkt \in PacketsEdge :
        pkt.payload.raw \in {ObjectText, QuotedText, NumberText, ArrayText, JsonNull.raw}}

\* C32: the delivery of a payload that gives no device or no status changes
\* nothing but the record of the text delivered: the registry, its
\* bookkeeping and the timer are as they were, so nothing of the event is
\* kept to be tried again; and every packet handled after it leaves the
\* registry it would have left had the event not arrived.
C32_FailedParseLeavesNoTrace ==
    /\ [](\A f \in FailedPackets : \A pkt \in PacketsEdge :
             /\ Outcome(f) = "ignored"
             /\ Handle(Handle(deviceStatus, f), pkt) = Handle(deviceStatus, pkt))
    /\ [][inbox' # inbox /\ (\E f \in FailedPackets : inbox' = f.payload.raw)
             => UNCHANGED <<deviceStatus, clock, sweepDue, swept, regressed, lastCap,
                            COMMAND_TOPIC, sent, reply, loop, creations>>]_vars

\* The JSON array was delivered last, to a registry that holds a device the
\* timer has marked.
C32_Witness ==
    /\ inbox = ArrayText
    /\ \E i \in 1..Len(deviceStatus) :
          /\ deviceStatus[i].status = OFFLINE
          /\ StrLess(deviceStatus[i].lastSeen, deviceStatus[i].updatedAt)

\* C33: as points in time, no record's lastSeen is later than its
\* updatedAt; the two differ only in a record that is offline, and then by
\* more than the stale threshold: the timer wrote updatedAt when it found the
\* record stale.
C33_LastSeenNotAfterUpdatedAt ==
    \A i \in 1..Len(deviceStatus) :
        LET info == deviceStatus[i]
        IN  /\ TimeLeq(DateParse(info.lastSeen), DateParse(info.updatedAt))
            /\ info.lastSeen # info.updatedAt =>
                  /\ info.status = OFFLINE
                  /\ TimeLess(AddMs(DateParse(info.lastSeen), STALE_MS),
                              DateParse(info.updatedAt))

\* The timer has marked a device whose last report carried a ts before the
\* epoch.
C33_Witness ==
    \E i \in 1..Len(deviceStatus) :
        /\ deviceStatus[i].status = OFFLINE
        /\ deviceStatus[i].lastSeen = toISOString(TsNegative.n)
        /\ TimeLess(<<BootDay, 0>>, DateParse(deviceStatus[i].updatedAt))

\* C34: a device that reports a status that is not "offline", without a ts,
\* and never lets more than STALE_MS pass between two reports, is not
\* "offline" in any state, whenever the timer runs between its reports.
C34_ReportingDeviceStaysOnline ==
    \A i \in 1..Len(deviceStatus) : deviceStatus[i].status # OFFLINE

\* The timer has run exactly STALE_MS after the device last reported, and
\* the device is online.
C34_Witness ==
    /\ swept >= 1
    /\ ~sweepDue
    /\ \E i \in 1..Len(deviceStatus) :
          /\ deviceStatus[i].status = ONLINE
          /\ Now = AddMs(DateParse(deviceStatus[i].lastSeen), STALE_MS)
          /\ deviceStatus[i].firstSeen # deviceStatus[i].lastSeen

\* A session token that is valid (a session object with a user and an
\* expiry time), correctly signed (its signature is the HMAC of its payload
\* under the server's secret) and unexpired at `now`.
Authentic(token, now) ==
    /\ token.b64.shape = "session"
    /\ token.b64.u # ""
    /\ token.sig = Hmac(SESSION_SECRET, token.b64)
    /\ ~TimeLess(token.b64.exp, now)

\* The last request came without an authentic token (none, or one that is
\* invalid, wrongly signed or past its expiry time) for a path other than
\* /login and /health.
Unauthenticated ==
    /\ served.method # ""
    /\ served.cookie.kind = "sid" => ~Authentic(served.cookie.sid, served.at)
    /\ served.path \notin {"/login", "/health"}

\* The last request was answered by a redirect to /login, the registry not
\* read and no command published.
TurnedAway ==
    /\ served.code = 302
    /\ served.location.to = "/login"
    /\ served.effect = "none"

\* C35: a request without a valid, unexpired, correctly signed session token
\* to a path other than /login and /health is answered with a redirect to
\* /login, reads no registry and publishes no command; a token past its
\* expiry time is rejected.
C35_UnauthenticatedTurnedAway == Unauthenticated => TurnedAway

\* C35 for the requests whose Cookie header parseCookies can decode.
C35_DecodedCookiesTurnedAway ==
    Unauthenticated /\ served.cookie.kind # "malformed" => TurnedAway

\* C35: a token the server issued opens the registry at its expiry time and
\* is turned away a millisecond later.
C35_ExpiredWitness ==
    /\ served.cookie.kind = "sid"
    /\ served.cookie.sid = makeSession(ADMIN_USER, <<BootDay, 0>>)
    /\ served.at = AddMs(<<BootDay, 0>>, SESSION_MAX_AGE + 1)
    /\ served.path = "/api/devices"
    /\ served.route = "gate"
    /\ Len(deviceStatus) = 1

\* C35: the same token at its expiry time reads the registry.
C35_AdmittedWitness ==
    /\ served.cookie.sid = makeSession(ADMIN_USER, <<BootDay, 0>>)
    /\ served.at = AddMs(<<BootDay, 0>>, SESSION_MAX_AGE)
    /\ served.effect = "read"
    /\ snapshot.count = 1

\* The last entries of a list, at most n of them, in the order of the list.
MostRecent(list, n) ==
    IF Len(list) <= n THEN list ELSE SubSeq(list, Len(list) - n + 1, Len(list))

\* A body that is malformed, or whose message is missing or empty.
EmptyOrMalformed(body) ==
    \/ body.kind \in {"malformed", "empty"}
    \/ body.kind = "object" /\ body.message \in {JsUndefined, JsString(<<>>)}

\* C36: the message list holds at most 500 entries, the most recently
\* accepted messages in arrival order, the oldest having been dropped
\* first; a POST /simply whose message is empty or missing or whose body is
\* malformed is answered with an error and leaves the list as it was.
C36_ListHoldsMostRecent ==
    /\ Len(messages) <= MAX_ITEMS
    /\ messages = MostRecent(arrived, MAX_ITEMS)
    /\ EmptyOrMalformed(answer.body) => answer.code = 400 /\ answer.kept

\* C36: the list is full, two more messages arrive, the two oldest are gone
\* and a request without a message has been refused since.
C36_Witness ==
    /\ Len(arrived) = MAX_ITEMS + 2
    /\ Len(messages) = MAX_ITEMS
    /\ messages[1].msg = Numbered(3)
    /\ messages[MAX_ITEMS - 1].msg = <<"a">>
    /\ messages[MAX_ITEMS].msg = <<"h", "i">>
    /\ answer.body = Simply(JsUndefined)
    /\ answer.code = 400

====
